---------------------------- MODULE Spec2Model ----------------------------
(***************************************************************************)
(* Model of the raster alignment / stacking scripts                        *)
(*   scripts/11_NDVI_inta_verano.py                      (script "base")   *)
(*   scripts/Coronel Suarez/11_NDVI_coronel_suarez_verano.py (script "cs") *)
(* and of the scripts beside them: recortar_mnc_coronel_suarez.py          *)
(* ("recortar"), MWM_filter/mwm_3_arroyos.py ("mwm"),                      *)
(* redescargar_rasters_problematicos.py ("redescargar") and the function   *)
(* descargar_con_export of 0_get_rasters_coronel_suarez.py ("export").     *)
(*                                                                         *)
(* A raster sample is a float32; a coordinate is a Python float.  Array    *)
(* indices and windows are 0-based as in the scripts; TLA+ sequences are   *)
(* 1-based, so row r, column c of an array is data[r + 1][c + 1].          *)
(***************************************************************************)
EXTENDS Integers, Sequences, FiniteSets, TLC

VARIABLES
    script,              \* which script this run executes: "base", "cs", ...
    pc,                  \* position of the run in the script
    exit_code,           \* -1 while running, then the process exit status
    disk,                \* the monthly NDVI files: month index -> file
    verano,              \* the categorical reference raster file
    ndvi_files,          \* found files, as indices into NDVI_MESES
    ndvi_nombres,        \* their labels
    areas_validas,       \* per found file: its valid window, or Ninguna
    porcentajes_validos, \* script cs: the list built beside areas_validas
    recorte_comun,       \* the common window
    nuevo_transform,     \* the affine transform of the common grid
    ventana_leida,       \* history: a src.read(1, window=ventana) was issued
    banda_verano,        \* the category band
    bandas_ndvi,         \* the monthly bands, cropped
    bandas_leidas,       \* bandas_ndvi as PASO 3 left it (history)
    estadisticos,        \* mediana, minimo, maximo, desviacion
    salida,              \* the output raster as written
    nombres_txt,         \* the band-name manifest as written
    lecturas,            \* history: per tile, the source window computed and read
    pred,                \* script mwm: the prediction raster as read
    pred_filtrado,       \* script mwm: the filtered raster as written
    pendientes,          \* script redescargar: the files still to process
    tarea,               \* descargar_con_export: the export task on the server
    retorno,             \* "" while running, then what the download returned
    descarga,            \* descargar_imagen_gee: the call under way
    coleccion,           \* the months the image collection has images for
    teselado             \* the tile loop alone: its grid, tile size and tiles

vars == <<script, pc, exit_code, disk, verano, ndvi_files, ndvi_nombres,
          areas_validas, porcentajes_validos, recorte_comun, nuevo_transform,
          ventana_leida, banda_verano, bandas_ndvi, bandas_leidas, estadisticos, salida, nombres_txt,
          lecturas, pred, pred_filtrado, pendientes, tarea, retorno,
          descarga, coleccion, teselado>>

\* The state of the scripts beside the two pipelines and the crop script.
otros_scripts ==
    <<pred, pred_filtrado, pendientes, tarea, retorno, descarga, coleccion,
      teselado>>

-----------------------------------------------------------------------------
(* Python floats (coordinates, pixel sizes, percentages) are IEEE 754        *)
(* doubles: nan, zero, or sig * m * 2^e with sig in {1, -1} and an odd       *)
(* significand m below 2^53, held as the sequence of its digits in base      *)
(* 2^15, lowest first.  Every operation rounds its exact result to the       *)
(* nearest double, ties to even.  Infinities (nan here), the sign of zero    *)
(* and the limits of the exponent are out of the range of the values used.   *)

NaNReal == [nan |-> TRUE, sig |-> 1, m |-> <<>>, e |-> 0]
CeroReal == [nan |-> FALSE, sig |-> 1, m |-> <<>>, e |-> 0]

isnan_real(x) == x.nan

Abs(n) == IF n < 0 THEN -n ELSE n

\* The number of binary digits of M >= 0.
RECURSIVE BitLen(_)
BitLen(M) == IF M = 0 THEN 0 ELSE 1 + BitLen(M \div 2)

\* The base of the digits of a significand, and the bits of one digit.
BitsDigito == 15
Base == 32768

\* The bits of a double's significand.
BitsDoble == 53

\* A natural number too long for one machine integer is the sequence of its
\* digits in base Base, lowest first, without leading zeros; zero is <<>>.
RECURSIVE BNorm(_)
BNorm(x) ==
    IF x = <<>> \/ x[Len(x)] # 0 THEN x
    ELSE BNorm(SubSeq(x, 1, Len(x) - 1))

RECURSIVE BDe(_)
BDe(n) == IF n = 0 THEN <<>> ELSE <<n % Base>> \o BDe(n \div Base)

RECURSIVE BAInt(_)
BAInt(x) == IF x = <<>> THEN 0 ELSE x[1] + Base * BAInt(Tail(x))

Digito(x, i) == IF i <= Len(x) THEN x[i] ELSE 0

\* The digits from the i-th on of a + b + c.
RECURSIVE BSuma(_, _, _, _)
BSuma(a, b, i, c) ==
    IF i > Len(a) /\ i > Len(b) THEN (IF c = 0 THEN <<>> ELSE <<c>>)
    ELSE <<(Digito(a, i) + Digito(b, i) + c) % Base>>
            \o BSuma(a, b, i + 1, (Digito(a, i) + Digito(b, i) + c) \div Base)

BAdd(a, b) == BSuma(a, b, 1, 0)

\* The digits from the i-th on of a - b - c, for a >= b.
RECURSIVE BResta(_, _, _, _)
BResta(a, b, i, c) ==
    IF i > Len(a) THEN <<>>
    ELSE <<(a[i] - Digito(b, i) - c) % Base>>
            \o BResta(a, b, i + 1,
                      IF a[i] - Digito(b, i) - c < 0 THEN 1 ELSE 0)

BSub(a, b) == BNorm(BResta(a, b, 1, 0))

\* The digits from the i-th on of a * d + c, for one digit d.
RECURSIVE BPorDigito(_, _, _, _)
BPorDigito(a, d, i, c) ==
    IF i > Len(a) THEN (IF c = 0 THEN <<>> ELSE <<c>>)
    ELSE <<(a[i] * d + c) % Base>>
            \o BPorDigito(a, d, i + 1, (a[i] * d + c) \div Base)

BMulD(a, d) == IF d = 0 THEN <<>> ELSE BPorDigito(a, d, 1, 0)

\* x * Base^n
BDesplazar(x, n) == IF x = <<>> THEN <<>> ELSE [i \in 1..n |-> 0] \o x

\* a times the digits of b from the i-th on, in their places.
RECURSIVE BProd(_, _, _)
BProd(a, b, i) ==
    IF i > Len(b) THEN <<>>
    ELSE BAdd(BDesplazar(BMulD(a, b[i]), i - 1), BProd(a, b, i + 1))

BMul(a, b) == BProd(a, b, 1)

\* x * 2^k
BShl(x, k) == BDesplazar(BMulD(x, 2^(k % BitsDigito)), k \div BitsDigito)

\* The digits i, i-1, ..., 1 of the quotient of a by one digit d, the digits
\* above having left the remainder r; and the remainder of that division.
RECURSIVE BCocienteD(_, _, _, _)
BCocienteD(a, d, i, r) ==
    IF i = 0 THEN <<>>
    ELSE BCocienteD(a, d, i - 1, (r * Base + a[i]) % d)
            \o <<(r * Base + a[i]) \div d>>

RECURSIVE BRestoD(_, _, _, _)
BRestoD(a, d, i, r) ==
    IF i = 0 THEN r ELSE BRestoD(a, d, i - 1, (r * Base + a[i]) % d)

BDivD(a, d) == BNorm(BCocienteD(a, d, Len(a), 0))

\* floor(x / 2^k)
BShr(x, k) ==
    IF k \div BitsDigito >= Len(x) THEN <<>>
    ELSE BDivD(SubSeq(x, k \div BitsDigito + 1, Len(x)), 2^(k % BitsDigito))

\* The number of binary digits of x.
BBits(x) ==
    IF x = <<>> THEN 0
    ELSE BitsDigito * (Len(x) - 1) + BitLen(x[Len(x)])

\* -1, 0 or 1 as a is below, equal to or above b.
RECURSIVE BCmpDesde(_, _, _)
BCmpDesde(a, b, i) ==
    IF i = 0 THEN 0
    ELSE IF a[i] < b[i] THEN -1
    ELSE IF a[i] > b[i] THEN 1
    ELSE BCmpDesde(a, b, i - 1)

BCmp(a, b) ==
    IF Len(a) < Len(b) THEN -1
    ELSE IF Len(a) > Len(b) THEN 1
    ELSE BCmpDesde(a, b, Len(a))

\* The number of zero bits at the low end of n > 0, and of x # <<>>.
RECURSIVE CerosFinales(_)
CerosFinales(n) == IF n % 2 = 1 THEN 0 ELSE 1 + CerosFinales(n \div 2)

RECURSIVE BCerosFinales(_)
BCerosFinales(x) ==
    IF x[1] # 0 THEN CerosFinales(x[1])
    ELSE BitsDigito + BCerosFinales(Tail(x))

\* The double sig * M * 2^e, for M of at most BitsDoble bits with z zero
\* bits at its low end.
SinCeros(sig, M, e, z) ==
    [nan |-> FALSE, sig |-> sig, m |-> BShr(M, z), e |-> e + z]

Doble(sig, M, e) ==
    IF M = <<>> THEN CeroReal ELSE SinCeros(sig, M, e, BCerosFinales(M))

\* q + 1 when the part r dropped below q rounds q up, else q: r against
\* half a unit, resto telling that more was dropped below r.
BRedondear(q, cmp, resto) ==
    IF cmp > 0 \/ (cmp = 0 /\ (resto \/ q[1] % 2 = 1))
    THEN BAdd(q, <<1>>) ELSE q

\* 2^k
BDos(k) == [i \in 1..(k \div BitsDigito) |-> 0] \o <<2^(k % BitsDigito)>>

\* The double nearest to sig * (M + d) * 2^e for M = q * 2^k + r, r < 2^k.
RedondearPartes(sig, M, q, e, k, resto) ==
    Doble(sig,
          BRedondear(q, BCmp(BSub(M, BShl(q, k)), BDos(k - 1)), resto),
          e + k)

\* The same for M with k bits more than a significand holds.
RedondearSobrante(sig, M, e, k, resto) ==
    IF k <= 0 THEN Doble(sig, M, e)
    ELSE RedondearPartes(sig, M, BShr(M, k), e, k, resto)

\* The double nearest to sig * (M + d) * 2^e, where 0 < d < 1 if resto and
\* d = 0 if not; M has two bits more than a significand whenever resto.
Redondear64(sig, M, e, resto) ==
    RedondearSobrante(sig, M, e, BBits(M) - BitsDoble, resto)

\* float(n) for an integer n
Num(n) == Doble(IF n < 0 THEN -1 ELSE 1, BDe(Abs(n)), 0)

Neg(x) == IF x.nan \/ x.m = <<>> THEN x ELSE [x EXCEPT !.sig = -x.sig]

\* The position of the highest bit of x # 0.
Tope(x) == x.e + BBits(x.m)

\* The exponents of two operands further apart than this leave the smaller
\* one below the rounding of the larger.
Lejos == 64

\* sa * A + sb * B as a sign and a magnitude, cmp being BCmp(A, B).
SumaConSigno(sa, A, sb, B, cmp) ==
    IF sa = sb THEN [sig |-> sa, M |-> BAdd(A, B)]
    ELSE IF cmp >= 0 THEN [sig |-> sa, M |-> BSub(A, B)]
    ELSE [sig |-> sb, M |-> BSub(B, A)]

RedondearSuma(s, e) == Redondear64(s.sig, s.M, e, FALSE)

\* sa * A * 2^e + sb * B * 2^e, rounded.
SumaAlineada(sa, A, sb, B, e) ==
    RedondearSuma(SumaConSigno(sa, A, sb, B, BCmp(A, B)), e)

\* The part of an exponent d above zero.
Sobre(d) == IF d > 0 THEN d ELSE 0

\* a + b for finite operands other than zero whose highest bits are ta and
\* tb: both brought to the lower exponent.
SumaCercana(a, b, ta, tb) ==
    IF ta - tb > Lejos THEN a
    ELSE IF tb - ta > Lejos THEN b
    ELSE SumaAlineada(a.sig, BShl(a.m, Sobre(a.e - b.e)),
                      b.sig, BShl(b.m, Sobre(b.e - a.e)),
                      IF a.e <= b.e THEN a.e ELSE b.e)

\* a + b; nan propagates.
Add(a, b) ==
    IF isnan_real(a) \/ isnan_real(b) THEN NaNReal
    ELSE IF a.m = <<>> THEN b
    ELSE IF b.m = <<>> THEN a
    ELSE SumaCercana(a, b, Tope(a), Tope(b))

Sub(a, b) == Add(a, Neg(b))

Mul(a, b) ==
    IF isnan_real(a) \/ isnan_real(b) THEN NaNReal
    ELSE IF a.m = <<>> \/ b.m = <<>> THEN CeroReal
    ELSE Redondear64(a.sig * b.sig, BMul(a.m, b.m), a.e + b.e, FALSE)

\* a < b; a comparison with nan is false.
Negativo(d) == ~isnan_real(d) /\ d.m # <<>> /\ d.sig = -1

Less(a, b) == Negativo(Sub(a, b))

\* The bits of a quotient that are computed before it is rounded.
BitsCociente == 60

\* The largest q <= qe with q * B <= R.
RECURSIVE DigitoCociente(_, _, _)
DigitoCociente(R, B, qe) ==
    IF BCmp(BMulD(B, qe), R) > 0 THEN DigitoCociente(R, B, qe - 1) ELSE qe

\* The quotient digit of R by B from their leading digits: at most two above
\* the digit, for B with the highest bit of its highest digit set and
\* R < B * Base.
Acotado(q) == IF q >= Base THEN Base - 1 ELSE q

Estimado(R, B) ==
    Acotado((Digito(R, Len(B) + 1) * Base + Digito(R, Len(B))) \div B[Len(B)])

\* Long division of N by B, digit i of N coming down to the remainder R left
\* by the digits above it, Q the quotient digits found so far: the quotient
\* and whether a remainder is left.
RECURSIVE BDivLargo(_, _, _, _, _)
BajarDigito(N, B, i, R, Q, q) ==
    BDivLargo(N, B, i - 1, BSub(R, BMulD(B, q)), <<q>> \o Q)

ConDigito(N, B, i, R, Q) ==
    BajarDigito(N, B, i, R, Q, DigitoCociente(R, B, Estimado(R, B)))

BDivLargo(N, B, i, R, Q) ==
    IF i = 0 THEN [q |-> BNorm(Q), resto |-> R # <<>>]
    ELSE ConDigito(N, B, i, BNorm(<<N[i]>> \o R), Q)

\* The quotient of N by D and whether a remainder is left: by one digit, or
\* by a longer D, both shifted to set the highest bit of D's highest digit.
DivisionLarga(N, D) == BDivLargo(N, D, Len(N), <<>>, <<>>)

Normalizados(N, D, k) == DivisionLarga(BShl(N, k), BShl(D, k))

BDivMod(N, D) ==
    IF Len(D) = 1
    THEN [q |-> BDivD(N, D[1]), resto |-> BRestoD(N, D[1], Len(N), 0) # 0]
    ELSE Normalizados(N, D, BitsDigito * Len(D) - BBits(D))

RedondearCociente(sig, qr, e) == Redondear64(sig, qr.q, e, qr.resto)

\* sig * (A / B) * 2^e, by a quotient of the integers A * 2^k and B that has
\* BitsCociente bits or one more.
Cociente(sig, A, B, e, k) ==
    RedondearCociente(sig, BDivMod(BShl(A, k), B), e - k)

\* a / b for floats; a zero divisor gives NaN or an infinity, both NaN here.
Div(a, b) ==
    IF isnan_real(a) \/ isnan_real(b) \/ b.m = <<>> THEN NaNReal
    ELSE IF a.m = <<>> THEN CeroReal
    ELSE IF b.m = <<1>> THEN [a EXCEPT !.sig = a.sig * b.sig, !.e = a.e - b.e]
    ELSE Cociente(a.sig * b.sig, a.m, b.m, a.e - b.e,
                  BitsCociente + BBits(b.m) - BBits(a.m))

\* The float literal n/d: the double nearest to the ratio of two integers.
Frac(n, d) == Div(Num(n), Num(d))

\* math.floor
HaciaAbajo(sig, n) == IF sig = 1 THEN n ELSE -(n + 1)

Floor(q) ==
    IF q.e >= 0 THEN q.sig * BAInt(BShl(q.m, q.e))
    ELSE HaciaAbajo(q.sig, BAInt(BShr(q.m, -q.e)))

-----------------------------------------------------------------------------
(* Raster samples are float32 (every band is read with .astype(np.float32)). *)
(* A sample is NaN, zero, or sig * m * 2^e with sig in {1, -1} and a 24-bit  *)
(* significand 2^23 <= m < 2^24.  Every operation rounds to nearest, ties to *)
(* even, as IEEE 754 does.  Infinities and subnormals are out of the range   *)
(* of the samples used here.                                                 *)

NaN == [nan |-> TRUE, sig |-> 1, m |-> 0, e |-> 0]
Cero == [nan |-> FALSE, sig |-> 1, m |-> 0, e |-> 0]

\* np.isnan
isnan(x) == x.nan

Dos23 == 2^23
Dos24 == 2^24

\* q + 1 when the dropped part r (of half-unit half) rounds q up, else q.
Redondear(q, r, half) ==
    IF r > half \/ (r = half /\ q % 2 = 1) THEN q + 1 ELSE q

\* The float32 nearest to sig * M * 2^e, for 0 < M < 2^31.
RoundNorm(sig, M, e) ==
    LET n == BitLen(M)
        k == n - 24
    IN  IF k <= 0
        THEN [nan |-> FALSE, sig |-> sig, m |-> M * 2^(-k), e |-> e + k]
        ELSE LET q == Redondear(M \div 2^k, M % 2^k, 2^(k - 1))
             IN  IF q = Dos24
                 THEN [nan |-> FALSE, sig |-> sig, m |-> Dos23, e |-> e + k + 1]
                 ELSE [nan |-> FALSE, sig |-> sig, m |-> q, e |-> e + k]

\* q with its lowest bit set when a non-zero remainder was dropped below it.
Pegajoso(q, resto) == IF resto # 0 /\ q % 2 = 0 THEN q + 1 ELSE q

\* The float32 nearest to p / q, for integers p # 0 and q > 0 that keep
\* p * 2^k below 2^31 while p * 2^k / q reaches 2^26.
RECURSIVE Escala(_, _, _)
Escala(p, q, k) == IF (p * 2^k) \div q >= 2^26 THEN k ELSE Escala(p, q, k + 1)

DeFraccion(p, q) ==
    LET k == Escala(Abs(p), q, 0)
        M == Abs(p) * 2^k
    IN  RoundNorm(IF p < 0 THEN -1 ELSE 1, Pegajoso(M \div q, M % q), -k)

\* np.float32(n) for an integer n
DeEntero(n) == IF n = 0 THEN Cero ELSE DeFraccion(n, 1)

Neg32(x) == IF isnan(x) \/ x.m = 0 THEN x ELSE [x EXCEPT !.sig = -x.sig]

\* x + y: the significands carry three extra bits, the smaller operand is
\* shifted right to the larger exponent with the dropped bits kept as a
\* sticky bit, and the exact sum of the two is rounded.
Add32(x, y) ==
    IF isnan(x) \/ isnan(y) THEN NaN
    ELSE IF x.m = 0 THEN y
    ELSE IF y.m = 0 THEN x
    ELSE LET a == IF x.e >= y.e THEN x ELSE y
             b == IF x.e >= y.e THEN y ELSE x
             d == a.e - b.e
             A == a.m * 8
             B == IF d >= 28 THEN 1
                  ELSE Pegajoso((b.m * 8) \div 2^d, (b.m * 8) % 2^d)
             S == a.sig * A + b.sig * B
         IN  IF S = 0 THEN Cero
             ELSE RoundNorm(IF S > 0 THEN 1 ELSE -1, Abs(S), a.e - 3)

Sub32(x, y) == Add32(x, Neg32(y))

\* The 48-bit product a * b of two 24-bit integers as hi * 2^24 + lo.
Producto48(a, b) ==
    LET a1 == a \div 4096
        a0 == a % 4096
        b1 == b \div 4096
        b0 == b % 4096
        mid == a1 * b0 + a0 * b1
        lof == a0 * b0 + (mid % 4096) * 4096
    IN  [hi |-> a1 * b1 + mid \div 4096 + lof \div Dos24, lo |-> lof % Dos24]

\* x * y
Mul32(x, y) ==
    IF isnan(x) \/ isnan(y) THEN NaN
    ELSE IF x.m = 0 \/ y.m = 0 THEN Cero
    ELSE LET P == Producto48(x.m, y.m)
             alto == P.hi >= Dos23
             q == IF alto THEN Redondear(P.hi, P.lo, Dos23)
                  ELSE Redondear(P.hi * 2 + P.lo \div Dos23, P.lo % Dos23,
                                 Dos23 \div 2)
             ee == x.e + y.e + (IF alto THEN 24 ELSE 23)
         IN  IF q = Dos24
             THEN [nan |-> FALSE, sig |-> x.sig * y.sig, m |-> Dos23,
                   e |-> ee + 1]
             ELSE [nan |-> FALSE, sig |-> x.sig * y.sig, m |-> q, e |-> ee]

\* x / n for a count 0 <= n <= 7; 0 / 0 and x / 0 give NaN or an infinity
\* (numpy warns, does not raise), both NaN here.
DivCount32(x, n) ==
    IF isnan(x) \/ n = 0 THEN NaN
    ELSE IF x.m = 0 THEN x
    ELSE RoundNorm(x.sig, Pegajoso((x.m * 64) \div n, (x.m * 64) % n), x.e - 6)

\* x / 2.0
Mitad32(x) == IF isnan(x) \/ x.m = 0 THEN x ELSE [x EXCEPT !.e = x.e - 1]

\* a <= b for 48-bit integers [hi, lo]
Menor48(a, b) == a.hi < b.hi \/ (a.hi = b.hi /\ a.lo <= b.lo)

\* The largest r in lo..hi with r * r <= X, by bisection.
RECURSIVE RaizEntera(_, _, _)
RaizEntera(X, lo, hi) ==
    IF lo >= hi THEN lo
    ELSE LET mid == (lo + hi + 1) \div 2
         IN  IF Menor48(Producto48(mid, mid), X)
             THEN RaizEntera(X, mid, hi)
             ELSE RaizEntera(X, lo, mid - 1)

\* np.sqrt(x): the significand is scaled to a 48-bit integer X with an even
\* exponent, and the integer root r is rounded up when X > r * (r + 1).
Sqrt32(x) ==
    IF isnan(x) THEN NaN
    ELSE IF x.m = 0 THEN x
    ELSE IF x.sig < 0 THEN NaN
    ELSE LET par == x.e % 2 = 0
             X == IF par THEN [hi |-> x.m, lo |-> 0]
                  ELSE [hi |-> x.m \div 2, lo |-> (x.m % 2) * Dos23]
             er == IF par THEN (x.e - 24) \div 2 ELSE (x.e - 23) \div 2
             r == RaizEntera(X, Dos23, Dos24 - 1)
             R == Producto48(r, r)
             rem == (X.hi - R.hi) * Dos24 + (X.lo - R.lo)
             r2 == IF rem > r THEN r + 1 ELSE r
         IN  IF r2 = Dos24
             THEN [nan |-> FALSE, sig |-> 1, m |-> Dos23, e |-> er + 1]
             ELSE [nan |-> FALSE, sig |-> 1, m |-> r2, e |-> er]

\* x == y
Eq32(x, y) == ~isnan(x) /\ ~isnan(y) /\ x = y

\* x < y
Less32(x, y) ==
    /\ ~isnan(x)
    /\ ~isnan(y)
    /\ LET d == Sub32(x, y) IN d.m # 0 /\ d.sig < 0

-----------------------------------------------------------------------------
(* Arrays and raster files.  A 2-D array is a sequence of rows.              *)

Height(a) == Len(a)
Width(a) == IF Len(a) = 0 THEN 0 ELSE Len(a[1])

\* A raster file: src.height, src.width, src.crs, src.transform, src.nodata
\* (tiene_nodata is FALSE when src.nodata is None) and the samples of band 1
\* as stored.
Ausente ==
    [existe |-> FALSE, height |-> 0, width |-> 0, crs |-> "",
     transform |-> [a |-> NaNReal, c |-> NaNReal, e |-> NaNReal,
                    f |-> NaNReal],
     tiene_nodata |-> FALSE, nodata |-> NaN, data |-> <<>>]

\* src.read(1).astype(np.float32)
read(f) == f.data

\* data[data == src.nodata] = np.nan, under "if src.nodata is not None"
AplicarNodata(data, f) ==
    IF f.tiene_nodata
    THEN [r \in 1..Len(data) |->
            [c \in 1..Len(data[r]) |->
                IF Eq32(data[r][c], f.nodata) THEN NaN ELSE data[r][c]]]
    ELSE data

-----------------------------------------------------------------------------
(* The month list and the labels.                                            *)

NDVI_MESES ==
    <<"2023-12", "2024-01", "2024-02", "2024-03", "2024-04", "2024-05",
      "2024-06">>

Meses == 1..Len(NDVI_MESES)

\* f"NDVI_{mes}"
Nombre(m) == "NDVI_" \o NDVI_MESES[m]

-----------------------------------------------------------------------------
(* PASO 2: the valid window of one raster.                                   *)

\* ~np.all(np.isnan(data), axis=1)
filas_validas(data) ==
    [r \in 1..Height(data) |-> ~(\A c \in 1..Width(data) : isnan(data[r][c]))]

\* ~np.all(np.isnan(data), axis=0)
cols_validas(data) ==
    [c \in 1..Width(data) |-> ~(\A r \in 1..Height(data) : isnan(data[r][c]))]

\* np.any
any(b) == \E i \in 1..Len(b) : b[i]

\* b[::-1]
invertir(b) == [i \in 1..Len(b) |-> b[Len(b) + 1 - i]]

\* np.argmax of a boolean vector: the 0-based index of the first True, and 0
\* when there is none.
argmax(b) ==
    IF any(b)
    THEN (CHOOSE i \in 1..Len(b) : b[i] /\ \A j \in 1..(i - 1) : ~b[j]) - 1
    ELSE 0

Ninguna ==
    [valida |-> FALSE, fila_inicio |-> 0, fila_fin |-> 0, col_inicio |-> 0,
     col_fin |-> 0, width |-> 0, height |-> 0]

\* area_valida with the ends taken as the last valid index, not one past it.
area_valida_fin_inclusivo(data) ==
    LET fv == filas_validas(data)
        cv == cols_validas(data)
    IN  IF any(fv) /\ any(cv)
        THEN LET fila_inicio == argmax(fv)
                 fila_fin == Len(fv) - argmax(invertir(fv)) - 1
                 col_inicio == argmax(cv)
                 col_fin == Len(cv) - argmax(invertir(cv)) - 1
             IN  [valida |-> TRUE,
                  fila_inicio |-> fila_inicio, fila_fin |-> fila_fin,
                  col_inicio |-> col_inicio, col_fin |-> col_fin,
                  width |-> col_fin - col_inicio,
                  height |-> fila_fin - fila_inicio]
        ELSE Ninguna

\* The body of the analysis loop: the dict appended to areas_validas, or
\* None.  (The cs script also stores pct_validos in the dict and never
\* reads it back; porcentajes_validos carries it.)
area_valida(data) ==
    LET fv == filas_validas(data)
        cv == cols_validas(data)
    IN  IF any(fv) /\ any(cv)
        THEN LET fila_inicio == argmax(fv)
                 fila_fin == Len(fv) - argmax(invertir(fv))
                 col_inicio == argmax(cv)
                 col_fin == Len(cv) - argmax(invertir(cv))
             IN  [valida |-> TRUE,
                  fila_inicio |-> fila_inicio, fila_fin |-> fila_fin,
                  col_inicio |-> col_inicio, col_fin |-> col_fin,
                  width |-> col_fin - col_inicio,
                  height |-> fila_fin - fila_inicio]
        ELSE Ninguna

\* The data the analysis loop looks at for the i-th found file.
DatosAnalizados(d, files, i) ==
    AplicarNodata(read(d[files[i]]), d[files[i]])

\* np.sum(~np.isnan(data))
n_validos(data) ==
    Cardinality({<<r, c>> \in (1..Height(data)) \X (1..Width(data)) :
                    ~isnan(data[r][c])})

\* 100 * n_validos / total_pixels
pct_validos(data) ==
    IF Height(data) * Width(data) = 0 THEN NaNReal
    ELSE Frac(100 * n_validos(data), Height(data) * Width(data))


-----------------------------------------------------------------------------
(* Affine transforms of north-up rasters: x = a * col + c, y = e * row + f.  *)

SinTransform == [a |-> NaNReal, c |-> NaNReal, e |-> NaNReal, f |-> NaNReal]

Half == [nan |-> FALSE, sig |-> 1, m |-> <<1>>, e |-> -1]

\* rasterio.transform.xy(transform, row, col): the centre of the pixel
\* (the default offset).
xy(t, row, col) ==
    [x |-> Add(t.c, Mul(t.a, Add(Num(col), Half))),
     y |-> Add(t.f, Mul(t.e, Add(Num(row), Half)))]

\* from_bounds with the width and the height taken in the other order.
from_bounds_alto_ancho(west, south, east, north, width, height) ==
    [a |-> Div(Sub(east, west), Num(height)), c |-> west,
     e |-> Div(Sub(south, north), Num(width)), f |-> north]

\* rasterio.transform.from_bounds(west, south, east, north, width, height)
from_bounds(west, south, east, north, width, height) ==
    [a |-> Div(Sub(east, west), Num(width)), c |-> west,
     e |-> Div(Sub(south, north), Num(height)), f |-> north]

\* src.bounds of a file: (left, bottom, right, top)
bounds_de(f) ==
    [left |-> f.transform.c,
     bottom |-> Add(f.transform.f, Mul(f.transform.e, Num(f.height))),
     right |-> Add(f.transform.c, Mul(f.transform.a, Num(f.width))),
     top |-> f.transform.f]

MinReal(a, b) == IF Less(b, a) THEN b ELSE a
MaxReal(a, b) == IF Less(a, b) THEN b ELSE a

-----------------------------------------------------------------------------
(* PASO 1: the inventory.                                                    *)

\* The found months, in NDVI_MESES order (the loop appends in list order).
Inventario(d) == SelectSeq([m \in Meses |-> m], LAMBDA m : d[m].existe)

SinArea == <<>>
SinRecorte ==
    [fila_inicio |-> 0, fila_fin |-> 0, col_inicio |-> 0, col_fin |-> 0,
     width |-> 0, height |-> 0]
SinEstadisticos ==
    [mediana |-> <<>>, minimo |-> <<>>, maximo |-> <<>>, desviacion |-> <<>>]
\* The export task before ee.batch.Export.image.toDrive creates it: its state
\* on the server, the attribute state of the Task object, whether the client
\* library stores the state on the object at each status request, the state
\* printed last and the number of time.sleep(10) calls so far.
SinTarea ==
    [servidor |-> "UNSUBMITTED", state |-> "UNSUBMITTED", refresca |-> FALSE,
     estado_anterior |-> "None", esperas |-> 0]
\* No call of descargar_imagen_gee under way: whether a file with the name
\* was on disk when the loop body tested it, and the chunks written so far.
SinDescarga == [existia |-> FALSE, trozos |-> 0]
SinTeselado == [height |-> 0, width |-> 0, chunk_size |-> 0, losas |-> <<>>]
SinSalida ==
    [escrito |-> FALSE, count |-> 0, width |-> 0, height |-> 0,
     transform |-> SinTransform, bandas |-> <<>>, nombres |-> <<>>]

\* exit(1), or an exception nobody catches: the process ends with status 1.
Abortar(resto) ==
    /\ pc' = "abortado"
    /\ exit_code' = 1
    /\ UNCHANGED resto
Paso1Base ==
    /\ script = "base"
    /\ pc = "paso1"
    /\ IF ~verano.existe
       THEN Abortar(<<ndvi_files, ndvi_nombres>>)
       ELSE IF Inventario(disk) = <<>>
       THEN Abortar(<<ndvi_files, ndvi_nombres>>)
       ELSE /\ ndvi_files' = Inventario(disk)
            /\ ndvi_nombres' =
                 [i \in 1..Len(Inventario(disk)) |-> Nombre(Inventario(disk)[i])]
            /\ pc' = "paso2"
            /\ UNCHANGED exit_code
    /\ UNCHANGED <<script, disk, verano, areas_validas, porcentajes_validos,
                   recorte_comun, nuevo_transform, ventana_leida, banda_verano,
                   bandas_ndvi, bandas_leidas, estadisticos, salida,
                   nombres_txt>>
    /\ UNCHANGED <<lecturas, otros_scripts>>

Paso1CS ==
    /\ script = "cs"
    /\ pc = "paso1"
    /\ IF Inventario(disk) = <<>>
       THEN Abortar(<<ndvi_files, ndvi_nombres>>)
       ELSE /\ ndvi_files' = Inventario(disk)
            /\ ndvi_nombres' =
                 [i \in 1..Len(Inventario(disk)) |-> Nombre(Inventario(disk)[i])]
            /\ pc' = "paso2"
            /\ UNCHANGED exit_code
    /\ UNCHANGED <<script, disk, verano, areas_validas, porcentajes_validos,
                   recorte_comun, nuevo_transform, ventana_leida, banda_verano,
                   bandas_ndvi, bandas_leidas, estadisticos, salida,
                   nombres_txt>>
    /\ UNCHANGED <<lecturas, otros_scripts>>

-----------------------------------------------------------------------------
(* PASO 2: the valid windows and the common window.                          *)

\* areas_validas after the analysis loop.
AreasValidas(d, files) ==
    [i \in 1..Len(files) |-> area_valida(DatosAnalizados(d, files, i))]
\* Filtrar that keeps the None entries.
Filtrar_sin_descartar(areas) == areas

\* [a for a in areas_validas if a is not None]
Filtrar(areas) == SelectSeq(areas, LAMBDA a : a.valida)

Rango(s) == {s[i] : i \in 1..Len(s)}
MaxDe(S) == CHOOSE x \in S : \A y \in S : y <= x
MinDe(S) == CHOOSE x \in S : \A y \in S : x <= y

\* RecorteInterseccion with the union of the windows: minimum of the starts,
\* maximum of the ends.
RecorteUnion(filtradas) ==
    LET fi == MinDe({a.fila_inicio : a \in Rango(filtradas)})
        ff == MaxDe({a.fila_fin : a \in Rango(filtradas)})
        ci == MinDe({a.col_inicio : a \in Rango(filtradas)})
        cf == MaxDe({a.col_fin : a \in Rango(filtradas)})
    IN  [fila_inicio |-> fi, fila_fin |-> ff, col_inicio |-> ci,
         col_fin |-> cf, width |-> cf - ci, height |-> ff - fi]

\* Script base: maximum of the starts, minimum of the ends.
RecorteInterseccion(filtradas) ==
    LET fi == MaxDe({a.fila_inicio : a \in Rango(filtradas)})
        ff == MinDe({a.fila_fin : a \in Rango(filtradas)})
        ci == MaxDe({a.col_inicio : a \in Rango(filtradas)})
        cf == MinDe({a.col_fin : a \in Rango(filtradas)})
    IN  [fila_inicio |-> fi, fila_fin |-> ff, col_inicio |-> ci,
         col_fin |-> cf, width |-> cf - ci, height |-> ff - fi]

\* min() and max() of the x and of the y of four corners.
CajaDeEsquinas(e1, e2, e3, e4) ==
    [left |-> MinReal(MinReal(e1.x, e2.x), MinReal(e3.x, e4.x)),
     bottom |-> MinReal(MinReal(e1.y, e2.y), MinReal(e3.y, e4.y)),
     right |-> MaxReal(MaxReal(e1.x, e2.x), MaxReal(e3.x, e4.x)),
     top |-> MaxReal(MaxReal(e1.y, e2.y), MaxReal(e3.y, e4.y))]

\* from_bounds(*nuevo_bounds, recorte_comun['width'], recorte_comun['height'])
TransformDeBounds(b, rc) ==
    from_bounds(b.left, b.bottom, b.right, b.top, rc.width, rc.height)

\* Script base: nuevo_bounds, from the pixel centres that xy() returns for the
\* four corners of the common window.
NuevoBoundsBase(ref, rc) ==
    CajaDeEsquinas(xy(ref.transform, rc.fila_inicio, rc.col_inicio),
                   xy(ref.transform, rc.fila_inicio, rc.col_fin),
                   xy(ref.transform, rc.fila_fin, rc.col_inicio),
                   xy(ref.transform, rc.fila_fin, rc.col_fin))

\* Script base: the transform of the common window.
NuevoTransformBase(ref, rc) == TransformDeBounds(NuevoBoundsBase(ref, rc), rc)

\* What from_bounds can do with the common window: with a zero width or
\* height its division is 0.0 / 0, a ZeroDivisionError on Python floats and a
\* NaN on the numpy floats that other versions of xy() return.
ResultadosFromBounds(rc) ==
    IF rc.width = 0 \/ rc.height = 0 THEN {"nan", "ZeroDivisionError"}
    ELSE {"ok"}

Paso2Base ==
    /\ script = "base"
    /\ pc = "paso2"
    /\ LET areas == AreasValidas(disk, ndvi_files)
           filtradas == Filtrar(areas)
       IN  /\ areas_validas' = areas
           /\ IF filtradas = <<>>
              THEN Abortar(<<recorte_comun, nuevo_transform>>)
              ELSE \E resultado \in
                        ResultadosFromBounds(RecorteInterseccion(filtradas)) :
                   /\ recorte_comun' = RecorteInterseccion(filtradas)
                   /\ IF resultado = "ZeroDivisionError"
                      THEN Abortar(<<nuevo_transform>>)
                      ELSE /\ nuevo_transform' =
                                NuevoTransformBase(disk[ndvi_files[1]],
                                           RecorteInterseccion(filtradas))
                           /\ pc' = "paso3"
                           /\ UNCHANGED exit_code
    /\ UNCHANGED <<script, disk, verano, ndvi_files, ndvi_nombres,
                   porcentajes_validos, ventana_leida, banda_verano,
                   bandas_ndvi, bandas_leidas, estadisticos, salida,
                   nombres_txt>>
    /\ UNCHANGED <<lecturas, otros_scripts>>


\* Script cs: porcentajes_validos after the analysis loop.  The loop appends
\* the percentage of every raster, and appends a 0 as well for a raster
\* without valid data.
RECURSIVE Porcentajes(_, _, _)
Porcentajes(d, files, i) ==
    IF i > Len(files) THEN <<>>
    ELSE LET data == DatosAnalizados(d, files, i)
         IN  <<pct_validos(data)>>
             \o (IF area_valida(data).valida THEN <<>> ELSE <<Num(0)>>)
             \o Porcentajes(d, files, i + 1)

indice_mayo_problema == 5
UmbralProblematico == 50

\* mayo_es_problematico
MayoEsProblematico(porcentajes) ==
    /\ indice_mayo_problema < Len(porcentajes)
    /\ Less(porcentajes[indice_mayo_problema + 1], Num(UmbralProblematico))
\* FiltrarCS that drops every raster whose valid percentage is below the
\* threshold, not only the one at indice_mayo_problema.
FiltrarCS_excluye_parciales(areas, porcentajes) ==
    LET idx == SelectSeq([i \in 1..Len(areas) |-> i],
                   LAMBDA i : areas[i].valida
                              /\ ~Less(porcentajes[i], Num(UmbralProblematico)))
    IN  [k \in 1..Len(idx) |-> areas[idx[k]]]

\* Script cs: areas_validas_filtradas
FiltrarCS(areas, porcentajes) ==
    IF MayoEsProblematico(porcentajes)
    THEN LET idx == SelectSeq([i \in 1..Len(areas) |-> i],
                       LAMBDA i : areas[i].valida
                                  /\ i - 1 # indice_mayo_problema)
         IN  [k \in 1..Len(idx) |-> areas[idx[k]]]
    ELSE Filtrar(areas)

\* porcentaje_recorte = 0.05, as a percentage
PorcentajeRecorte == 5
\* pixeles_recorte with round() in the place of int().
pixeles_recorte_redondeado(n) == (n * PorcentajeRecorte + 50) \div 100
\* pixeles_recorte with the product rounded up in the place of int().
pixeles_recorte_techo(n) == (n * PorcentajeRecorte + 99) \div 100

\* int(n * porcentaje_recorte): the product is a float at or just above
\* n / 20, and int() truncates it.
pixeles_recorte(n) == (n * PorcentajeRecorte) \div 100

\* RecorteMargen with the height taken before the bottom margin is trimmed.
RecorteMargen_alto_sin_margen(ref_height, ref_width) ==
    LET ph == pixeles_recorte(ref_height)
        pw == pixeles_recorte(ref_width)
    IN  [fila_inicio |-> ph, fila_fin |-> ref_height - ph,
         col_inicio |-> pw, col_fin |-> ref_width - pw,
         width |-> (ref_width - pw) - pw, height |-> ref_height - ph]

\* Script cs: the reference raster's extent with the margin trimmed.
RecorteMargen(ref_height, ref_width) ==
    LET ph == pixeles_recorte(ref_height)
        pw == pixeles_recorte(ref_width)
    IN  [fila_inicio |-> ph, fila_fin |-> ref_height - ph,
         col_inicio |-> pw, col_fin |-> ref_width - pw,
         width |-> (ref_width - pw) - pw, height |-> (ref_height - ph) - ph]

\* Script cs: nuevo_bounds, the reference bounds moved inwards by the margin.
BoundsRecortados(b, recorte_x, recorte_y) ==
    [left |-> Add(b.left, recorte_x), bottom |-> Add(b.bottom, recorte_y),
     right |-> Sub(b.right, recorte_x), top |-> Sub(b.top, recorte_y)]

BoundsMenosMargen(b, pw, ph, pixel_size_x, pixel_size_y) ==
    BoundsRecortados(b, Mul(pw, pixel_size_x), Mul(ph, pixel_size_y))

BoundsSegunPixel(b, ref) ==
    BoundsMenosMargen(b, Num(pixeles_recorte(ref.width)),
                      Num(pixeles_recorte(ref.height)),
                      Div(Sub(b.right, b.left), Num(ref.width)),
                      Div(Sub(b.top, b.bottom), Num(ref.height)))

NuevoBoundsCS(ref) == BoundsSegunPixel(bounds_de(ref), ref)

\* Script cs: the transform of the trimmed extent.
NuevoTransformCS(ref, rc) == TransformDeBounds(NuevoBoundsCS(ref), rc)

Paso2CS ==
    /\ script = "cs"
    /\ pc = "paso2"
    /\ LET areas == AreasValidas(disk, ndvi_files)
           porcentajes == Porcentajes(disk, ndvi_files, 1)
           ref == disk[ndvi_files[1]]
       IN  /\ areas_validas' = areas
           /\ porcentajes_validos' = porcentajes
           /\ IF FiltrarCS(areas, porcentajes) = <<>>
              THEN Abortar(<<recorte_comun, nuevo_transform>>)
              ELSE /\ recorte_comun' = RecorteMargen(ref.height, ref.width)
                   /\ nuevo_transform' =
                        NuevoTransformCS(ref,
                                         RecorteMargen(ref.height, ref.width))
                   /\ pc' = "paso3"
                   /\ UNCHANGED exit_code
    /\ UNCHANGED <<script, disk, verano, ndvi_files, ndvi_nombres,
                   ventana_leida, banda_verano, bandas_ndvi, bandas_leidas,
                   estadisticos, salida, nombres_txt>>
    /\ UNCHANGED <<lecturas, otros_scripts>>


-----------------------------------------------------------------------------
(* PASO 3: reading and cropping.                                             *)

\* np.full((height, width), np.nan)
LlenoDeNaN(height, width) ==
    [r \in 1..height |-> [c \in 1..width |-> NaN]]

\* src.read(1, window=ventana): the samples of f inside the window (col_off,
\* row_off, width, height); a window that reaches beyond the raster is cropped
\* to it, since the read is not boundless.
LeerVentana(f, rc) ==
    LET f2 == IF rc.fila_fin > f.height THEN f.height ELSE rc.fila_fin
        c2 == IF rc.col_fin > f.width THEN f.width ELSE rc.col_fin
    IN  [r \in 1..(f2 - rc.fila_inicio) |->
            [c \in 1..(c2 - rc.col_inicio) |->
                read(f)[rc.fila_inicio + r][rc.col_inicio + c]]]

\* src.read(1, window=ventana) followed by the nodata substitution.
LeerRecortada(f, rc) == AplicarNodata(LeerVentana(f, rc), f)

\* a[fi:ff, ci:cf] for non-negative bounds: a slice stops at the array's end.
Rebanar(a, fi, ff, ci, cf) ==
    LET f2 == IF ff > Height(a) THEN Height(a) ELSE ff
        c2 == IF cf > Width(a) THEN Width(a) ELSE cf
    IN  [r \in 1..(f2 - fi) |-> [c \in 1..(c2 - ci) |-> a[fi + r][ci + c]]]

\* Script cs: banda_completa[...] after the nodata substitution.
LeerCompletaYRecortar(f, rc) ==
    Rebanar(AplicarNodata(read(f), f), rc.fila_inicio, rc.fila_fin,
            rc.col_inicio, rc.col_fin)

\* The coordinate reference systems of the input files.  The monthly rasters
\* are downloaded in PROYECCION_FIJA, UTM zone 21 south in metres; the other
\* system is the same projection with a unit of two metres and a false
\* origin four metres further east and north.
CrsNDVI == "EPSG:32721"
CrsMNC == "+proj=utm +zone=21 +south +to_meter=2 +x_0=500004 +y_0=10000004"

\* The unit of a CRS in metres, and its false origin less that of UTM.
to_meter(crs) == IF crs = CrsMNC THEN Num(2) ELSE Num(1)
falso_origen(crs) == IF crs = CrsMNC THEN Num(4) ELSE Num(0)

\* The coordinate operation from src_crs to dst_crs on one coordinate: none
\* between equal systems; between the two systems of one projection, to
\* metres from the common origin and from there to the other unit and false
\* origin.
Transformar(src_crs, dst_crs, v) ==
    IF src_crs = dst_crs THEN v
    ELSE Div(Add(Sub(Mul(v, to_meter(src_crs)), falso_origen(src_crs)),
                 falso_origen(dst_crs)),
             to_meter(dst_crs))

\* The raster file f georeferenced in crs: the same samples on the same
\* ground.
EnOtroCRS(f, crs) ==
    [f EXCEPT
        !.crs = crs,
        !.transform =
            [a |-> Div(Mul(f.transform.a, to_meter(f.crs)), to_meter(crs)),
             c |-> Transformar(f.crs, crs, f.transform.c),
             e |-> Div(Mul(f.transform.e, to_meter(f.crs)), to_meter(crs)),
             f |-> Transformar(f.crs, crs, f.transform.f)]]

\* What reproject() leaves in the destination pixels no source sample falls
\* on: with init_dest_nodata at its default and no nodata value passed, the
\* destination is initialised to 0 before warping, whatever it held.
InitDest(height, width) ==
    [r \in 1..height |-> [c \in 1..width |-> Cero]]

\* The sample of src_data at the 0-based pixel (fila, col), or defecto
\* outside the array.
MuestraEnPixel(src_data, fila, col, defecto) ==
    IF /\ fila >= 0 /\ fila < Height(src_data)
       /\ col >= 0 /\ col < Width(src_data)
    THEN src_data[fila + 1][col + 1]
    ELSE defecto

\* The sample of src_data at the 0-based fractional position (cy, cx), or
\* defecto when the position is not a number.
MuestraEnPosicion(src_data, cy, cx, defecto) ==
    IF isnan_real(cx) \/ isnan_real(cy) THEN defecto
    ELSE MuestraEnPixel(src_data, Floor(cy), Floor(cx), defecto)

\* The sample of the source pixel that holds the point p of dst_crs.
MuestraDelCentro(src_data, src_t, src_crs, dst_crs, p, defecto) ==
    MuestraEnPosicion(
        src_data,
        Div(Sub(Transformar(dst_crs, src_crs, p.y), src_t.f), src_t.e),
        Div(Sub(Transformar(dst_crs, src_crs, p.x), src_t.c), src_t.a),
        defecto)

\* reproject(..., resampling=Resampling.nearest): nearest-neighbour
\* resampling of src_data (transform src_t, system src_crs) onto a grid of
\* dst_h x dst_w pixels with transform dst_t in dst_crs.  A destination pixel
\* takes the source sample whose footprint holds its centre, carried to
\* src_crs, and dst_init where there is none.
reproject_nearest(src_data, src_t, src_crs, dst_t, dst_crs, dst_h, dst_w, dst_init) ==
    [r \in 1..dst_h |->
        [c \in 1..dst_w |->
            MuestraDelCentro(src_data, src_t, src_crs, dst_crs,
                             xy(dst_t, r - 1, c - 1), dst_init[r][c])]]

\* Script base: whether banda_verano comes from reproject() and not from a
\* read of the window.
NecesitaReproyeccion(ver, ref) ==
    ver.crs # ref.crs \/ ver.width # ref.width \/ ver.height # ref.height

\* Script base: banda_verano.
BandaVeranoBase(ver, ref, rc, t) ==
    IF NecesitaReproyeccion(ver, ref)
    THEN reproject_nearest(AplicarNodata(read(ver), ver), ver.transform,
                           ver.crs, t, ref.crs, rc.height, rc.width,
                           InitDest(rc.height, rc.width))
    ELSE LeerRecortada(ver, rc)

\* The tile size of the windowed reprojection.
CHUNK_SIZE == 2000

\* The two roundings Window.round_lengths() and Window.round_offsets() have
\* had with their default arguments: op='floor' for both before rasterio
\* 1.3, and from 1.3 on lengths to the nearest whole number,
\* floor(x + 0.5), and offsets down after adding 0.001.
VersionesRasterio == {"floor", "nearest"}

round_lengths(x, version) ==
    IF version = "floor" THEN Floor(x) ELSE Floor(Add(x, Half))

round_offsets(x, version) ==
    IF version = "floor" THEN Floor(x) ELSE Floor(Add(x, Frac(1, 1000)))

\* rasterio.windows.bounds(window, transform): (left, bottom, right, top)
bounds(window, t) ==
    [left |-> Add(t.c, Mul(t.a, Num(window.col_off))),
     bottom |-> Add(t.f, Mul(t.e, Num(window.row_off + window.height))),
     right |-> Add(t.c, Mul(t.a, Num(window.col_off + window.width))),
     top |-> Add(t.f, Mul(t.e, Num(window.row_off)))]

\* transform_bounds(src_crs, dst_crs, left, bottom, right, top): the box
\* that holds the transformed edges of the bounds.
CajaDeBordes(x1, x2, y1, y2) ==
    [left |-> MinReal(x1, x2), bottom |-> MinReal(y1, y2),
     right |-> MaxReal(x1, x2), top |-> MaxReal(y1, y2)]

transform_bounds(src_crs, dst_crs, b) ==
    CajaDeBordes(Transformar(src_crs, dst_crs, b.left),
                 Transformar(src_crs, dst_crs, b.right),
                 Transformar(src_crs, dst_crs, b.bottom),
                 Transformar(src_crs, dst_crs, b.top))

\* ~transform of a transform without rotation (b = d = 0), as the affine
\* package computes it: idet = 1.0 / (a * e), ra = e * idet, re = a * idet,
\* rc = -c * ra, rf = -f * re.
InversaCon(t, ra, re) ==
    [a |-> ra, e |-> re, c |-> Mul(Neg(t.c), ra), f |-> Neg(Mul(t.f, re))]

InversaDe(t, idet) == InversaCon(t, Mul(t.e, idet), Mul(t.a, idet))

Inversa(t) == InversaDe(t, Div(Num(1), Mul(t.a, t.e)))

\* invtransform * (x, y): the fractional column of x and row of y.
fcol(inv, x) == Add(Mul(x, inv.a), inv.c)
frow(inv, y) == Add(Mul(y, inv.e), inv.f)

\* max(stop - start, 0.0)
LargoNoNegativo(d) == IF Negativo(d) THEN CeroReal ELSE d

\* The window between the least and the greatest of the columns c1, c2 and
\* of the rows r1, r2.
VentanaEntre(c1, c2, r1, r2) ==
    [col_off |-> MinReal(c1, c2),
     row_off |-> MinReal(r1, r2),
     width |-> LargoNoNegativo(Sub(MaxReal(c1, c2), MinReal(c1, c2))),
     height |-> LargoNoNegativo(Sub(MaxReal(r1, r2), MinReal(r1, r2)))]

VentanaEnInversa(b, inv) ==
    VentanaEntre(fcol(inv, b.left), fcol(inv, b.right),
                 frow(inv, b.top), frow(inv, b.bottom))

\* rasterio.windows.from_bounds(left, bottom, right, top, transform): the
\* corners of the bounds are carried to fractional rows and columns by the
\* inverse of the transform (rowcol with op=float); the window starts at
\* the least of them and its lengths are the differences of the greatest
\* and the least.
window_from_bounds(b, t) == VentanaEnInversa(b, Inversa(t))

\* AjustarVentana that keeps the computed lengths.
AjustarVentana_sin_acortar(ver, col_off, row_off, width, height) ==
    [col_off |-> IF col_off < 0 THEN 0 ELSE col_off,
     row_off |-> IF row_off < 0 THEN 0 ELSE row_off,
     width |-> width, height |-> height]

\* col_off_adj, row_off_adj, width_adj, height_adj: the rounded window moved
\* and shortened to lie inside the raster.
AjustarVentana(ver, col_off, row_off, width, height) ==
    LET col_off_adj == IF col_off < 0 THEN 0 ELSE col_off
        row_off_adj == IF row_off < 0 THEN 0 ELSE row_off
    IN  [col_off |-> col_off_adj, row_off |-> row_off_adj,
         width |-> IF ver.width - col_off_adj < width
                   THEN ver.width - col_off_adj ELSE width,
         height |-> IF ver.height - row_off_adj < height
                    THEN ver.height - row_off_adj ELSE height]

\* ver_window.round_lengths().round_offsets() and the int() of its fields.
VentanaRedondeada(w, version) ==
    [col_off |-> round_offsets(w.col_off, version),
     row_off |-> round_offsets(w.row_off, version),
     width |-> round_lengths(w.width, version),
     height |-> round_lengths(w.height, version)]

\* The window of the source raster computed for the tile of bounds wb.
ver_window_calculada(ver, ref_crs, wb, version) ==
    VentanaRedondeada(
        window_from_bounds(transform_bounds(ref_crs, ver.crs, wb),
                           ver.transform),
        version)

\* The adjustment of a computed window.
Ajustada(ver, w) ==
    AjustarVentana(ver, w.col_off, w.row_off, w.width, w.height)

\* The window of the source raster one tile reads, from the bounds wb of the
\* tile.
ver_window_adj(ver, ref_crs, wb, version) ==
    Ajustada(ver, ver_window_calculada(ver, ref_crs, wb, version))

\* src.read(1, window=Window(col_off, row_off, width, height))
LeerWindow(f, window) ==
    LeerVentana(f, [fila_inicio |-> window.row_off,
                    fila_fin |-> window.row_off + window.height,
                    col_inicio |-> window.col_off,
                    col_fin |-> window.col_off + window.width])

\* reproject() of the samples read from ver_window (bounds vwb) into the
\* tile dst_window (bounds wb).
ReproyectarLosa(ver, ref_crs, dst_window, wb, ver_window, vwb) ==
    reproject_nearest(
        LeerWindow(ver, ver_window),
        from_bounds(vwb.left, vwb.bottom, vwb.right, vwb.top,
                    ver_window.width, ver_window.height),
        ver.crs,
        from_bounds(wb.left, wb.bottom, wb.right, wb.top,
                    dst_window.width, dst_window.height),
        ref_crs,
        dst_window.height, dst_window.width,
        InitDest(dst_window.height, dst_window.width))

\* The tile dst_window given the source window it reads; hay is FALSE when
\* the tile is skipped for want of an intersection with the source.
LosaDesdeVentana(ver, ref_crs, dst_window, wb, ver_window) ==
    IF ver_window.width > 0 /\ ver_window.height > 0
    THEN [hay |-> TRUE,
          datos |-> ReproyectarLosa(ver, ref_crs, dst_window, wb, ver_window,
                                    bounds(ver_window, ver.transform))]
    ELSE [hay |-> FALSE, datos |-> <<>>]

\* The tile dst_window, whose bounds are wb.
Losa(ver, ref_crs, dst_window, wb, version) ==
    LosaDesdeVentana(ver, ref_crs, dst_window, wb,
                     ver_window_adj(ver, ref_crs, wb, version))

\* ver_chunk as reproject() leaves it for the tile of rows row_start..row_end
\* and columns col_start..col_end of the grid with transform t.
ver_chunk(ver, ref_crs, t, row_start, row_end, col_start, col_end, version) ==
    LET dst_window == [col_off |-> col_start, row_off |-> row_start,
                       width |-> col_end - col_start,
                       height |-> row_end - row_start]
    IN  Losa(ver, ref_crs, dst_window, bounds(dst_window, t), version)

\* ver_chunk[ver_chunk == verano_nodata] = np.nan, and the same for each of
\* the excluded values of the script.
ConvertirChunk(chunk, ver, excluidos) ==
    LET sin_nodata == AplicarNodata(chunk, ver)
    IN  [r \in 1..Height(chunk) |->
            [c \in 1..Width(chunk) |->
                IF \E v \in excluidos : Eq32(sin_nodata[r][c], DeEntero(v))
                THEN NaN ELSE sin_nodata[r][c]]]

\* The nodata and mask handling of a tile that was not skipped.
ConvertirLosa(ch, ver, excluidos) ==
    IF ch.hay
    THEN [hay |-> TRUE, datos |-> ConvertirChunk(ch.datos, ver, excluidos)]
    ELSE ch

\* n_chunks_h, n_chunks_w: the number of tiles along an axis of n pixels.
n_chunks(n, chunk_size) == (n + chunk_size - 1) \div chunk_size

\* row_start, col_start of tile i along an axis.
chunk_start(i, chunk_size) == i * chunk_size
\* chunk_end without the limit of the grid.
chunk_end_sin_tope(i, chunk_size, n) == (i + 1) * chunk_size

\* row_end, col_end of tile i along an axis of n pixels.
chunk_end(i, chunk_size, n) ==
    IF (i + 1) * chunk_size < n THEN (i + 1) * chunk_size ELSE n

\* The tiles of a grid of height x width pixels, as the loop over i and j
\* leaves them.
Chunks(ver, ref_crs, t, height, width, version, excluidos) ==
    [i \in 0..(n_chunks(height, CHUNK_SIZE) - 1) |->
        [j \in 0..(n_chunks(width, CHUNK_SIZE) - 1) |->
            ConvertirLosa(ver_chunk(ver, ref_crs, t,
                                    chunk_start(i, CHUNK_SIZE),
                                    chunk_end(i, CHUNK_SIZE, height),
                                    chunk_start(j, CHUNK_SIZE),
                                    chunk_end(j, CHUNK_SIZE, width),
                                    version),
                          ver, excluidos)]]
\* The tiles the loop over i and j visits past its `continue`, in the order
\* of the loop: rows row_start..row_end - 1, columns col_start..col_end - 1.
Losas(height, width, chunk_size) ==
    LET n_h == n_chunks(height, chunk_size)
        n_w == n_chunks(width, chunk_size)
        todas == [k \in 1..(n_h * n_w) |->
                    [row_start |-> chunk_start((k - 1) \div n_w, chunk_size),
                     row_end |-> chunk_end((k - 1) \div n_w, chunk_size,
                                           height),
                     col_start |-> chunk_start((k - 1) % n_w, chunk_size),
                     col_end |-> chunk_end((k - 1) % n_w, chunk_size, width)]]
    IN  SelectSeq(todas, LAMBDA l : ~(l.row_end <= l.row_start
                                       \/ l.col_end <= l.col_start))

\* dst_window of a tile.
VentanaDestino(losa) ==
    [col_off |-> losa.col_start, row_off |-> losa.row_start,
     width |-> losa.col_end - losa.col_start,
     height |-> losa.row_end - losa.row_start]

\* What the loop does with the source raster for one tile: the window it
\* computed, and the window it read if it read one.
RegistroDeLectura(losa, calculada, ajustada) ==
    [losa |-> losa, calculada |-> calculada,
     hay |-> ajustada.width > 0 /\ ajustada.height > 0,
     leida |-> ajustada]

LecturaCalculada(ver, losa, calculada) ==
    RegistroDeLectura(losa, calculada, Ajustada(ver, calculada))

\* The record of every tile of the grid of height x width pixels with
\* transform t.
Lecturas(ver, ref_crs, t, height, width, version) ==
    [k \in 1..Len(Losas(height, width, CHUNK_SIZE)) |->
        LecturaCalculada(
            ver, Losas(height, width, CHUNK_SIZE)[k],
            ver_window_calculada(
                ver, ref_crs,
                bounds(VentanaDestino(Losas(height, width, CHUNK_SIZE)[k]), t),
                version))]

\* The band the tiles are copied into, filled with NaN beforehand: NaN
\* where a tile was skipped.
Ensamblar(chunks, height, width) ==
    [r \in 1..height |->
        [c \in 1..width |->
            LET i == (r - 1) \div CHUNK_SIZE
                j == (c - 1) \div CHUNK_SIZE
            IN  IF chunks[i][j].hay
                THEN chunks[i][j].datos[r - i * CHUNK_SIZE]
                                       [c - j * CHUNK_SIZE]
                ELSE NaN]]

\* The windowed reprojection of ver onto the grid of height x width pixels
\* with transform t.
BandaPorVentanas(ver, ref_crs, t, height, width, version, excluidos) ==
    CHOOSE banda \in
        {Ensamblar(chunks, height, width) :
            chunks \in {Chunks(ver, ref_crs, t, height, width, version,
                               excluidos)}} :
        TRUE

\* Script cs: banda_verano, the dummy band when the file is missing.
BandaVeranoCS(ver, ref_crs, rc, t, version) ==
    IF ~ver.existe
    THEN LlenoDeNaN(rc.height, rc.width)
    ELSE BandaPorVentanas(ver, ref_crs, t, rc.height, rc.width, version, {})

\* What the first library call on the window can do: with a zero width or
\* height it is either refused by the library or yields an empty array.
ResultadosLectura(rc) ==
    IF rc.width = 0 \/ rc.height = 0 THEN {"vacio", "error"} ELSE {"ok"}

Paso3Base ==
    /\ script = "base"
    /\ pc = "paso3"
    /\ \E resultado \in ResultadosLectura(recorte_comun) :
         IF recorte_comun.width < 0 \/ recorte_comun.height < 0
         THEN \* Window(...) refuses a negative length: ValueError
              Abortar(<<ventana_leida, banda_verano, bandas_ndvi,
                        bandas_leidas>>)
         ELSE IF resultado = "error"
         THEN \* reproject() fails before any read of the window, with
              \* banda_verano already the array of NaN it was to fill; a
              \* read of the window fails once it has been issued
              /\ ventana_leida' =
                   ~NecesitaReproyeccion(verano, disk[ndvi_files[1]])
              /\ banda_verano' =
                   IF NecesitaReproyeccion(verano, disk[ndvi_files[1]])
                   THEN LlenoDeNaN(recorte_comun.height,
                                   recorte_comun.width)
                   ELSE banda_verano
              /\ Abortar(<<bandas_ndvi, bandas_leidas>>)
         ELSE LET bandas ==
                    [i \in 1..Len(ndvi_files) |->
                        LeerRecortada(disk[ndvi_files[i]], recorte_comun)]
              IN  /\ ventana_leida' = TRUE
                  /\ banda_verano' =
                       BandaVeranoBase(verano, disk[ndvi_files[1]],
                                       recorte_comun, nuevo_transform)
                  /\ bandas_ndvi' = bandas
                  /\ bandas_leidas' = bandas
                  /\ pc' = "paso4"
                  /\ UNCHANGED exit_code
    /\ UNCHANGED <<script, disk, verano, ndvi_files, ndvi_nombres,
                   areas_validas, porcentajes_validos, recorte_comun,
                   nuevo_transform, estadisticos, salida, nombres_txt>>
    /\ UNCHANGED <<lecturas, otros_scripts>>

Paso3CS ==
    /\ script = "cs"
    /\ pc = "paso3"
    /\ \E version \in VersionesRasterio :
         LET bandas ==
               [i \in 1..Len(ndvi_files) |->
                   LeerCompletaYRecortar(disk[ndvi_files[i]], recorte_comun)]
         IN  /\ banda_verano' =
                  BandaVeranoCS(verano, disk[ndvi_files[1]].crs,
                                recorte_comun, nuevo_transform, version)
             /\ lecturas' =
                  IF verano.existe
                  THEN Lecturas(verano, disk[ndvi_files[1]].crs,
                                nuevo_transform, recorte_comun.height,
                                recorte_comun.width, version)
                  ELSE <<>>
             /\ bandas_ndvi' = bandas
             /\ bandas_leidas' = bandas
             /\ pc' = "paso35"
    /\ UNCHANGED <<script, exit_code, disk, verano, ndvi_files, ndvi_nombres,
                   areas_validas, porcentajes_validos, recorte_comun,
                   nuevo_transform, ventana_leida, estadisticos, salida,
                   nombres_txt>>
    /\ UNCHANGED otros_scripts


-----------------------------------------------------------------------------
(* PASO 3.5 (script cs): temporal interpolation of the slice at index 5.     *)

indice_mayo == 5
indice_abril == 4
indice_junio == 6
UmbralInterpolacion == 50

\* arr[mask] = vals[mask] with the mask ignored.
AsignarTodo(arr, mask, vals) == vals

\* arr[mask] = vals[mask]
AsignarMascara(arr, mask, vals) ==
    [r \in 1..Height(arr) |->
        [c \in 1..Width(arr) |->
            IF mask[r][c] THEN vals[r][c] ELSE arr[r][c]]]

\* (banda_abril + banda_junio) / 2.0
Promedio(abril, junio) ==
    [r \in 1..Height(abril) |->
        [c \in 1..Width(abril) |->
            Mitad32(Add32(abril[r][c], junio[r][c]))]]

\* mask_necesita_interp, narrowed by the validity wanted of each neighbour.
MascaraInterp(mayo, abril, junio, abril_valido, junio_valido) ==
    [r \in 1..Height(mayo) |->
        [c \in 1..Width(mayo) |->
            /\ isnan(mayo[r][c])
            /\ isnan(abril[r][c]) = ~abril_valido
            /\ isnan(junio[r][c]) = ~junio_valido]]

\* mayo_interpolado with the average assigned wherever the slice is missing.
mayo_interpolado_promedio(banda_mayo, banda_abril, banda_junio) ==
    LET falta == [r \in 1..Height(banda_mayo) |->
                     [c \in 1..Width(banda_mayo) |-> isnan(banda_mayo[r][c])]]
    IN  AsignarMascara(banda_mayo, falta, Promedio(banda_abril, banda_junio))

\* mayo_interpolado: the three masked assignments, in the script's order.
mayo_interpolado(banda_mayo, banda_abril, banda_junio) ==
    LET mask_ambos_validos ==
            MascaraInterp(banda_mayo, banda_abril, banda_junio, TRUE, TRUE)
        mask_solo_abril ==
            MascaraInterp(banda_mayo, banda_abril, banda_junio, TRUE, FALSE)
        mask_solo_junio ==
            MascaraInterp(banda_mayo, banda_abril, banda_junio, FALSE, TRUE)
        m1 == AsignarMascara(banda_mayo, mask_ambos_validos,
                             Promedio(banda_abril, banda_junio))
        m2 == AsignarMascara(m1, mask_solo_abril, banda_abril)
    IN  AsignarMascara(m2, mask_solo_junio, banda_junio)
\* SeInterpola with the threshold included: at most 50% instead of below 50%.
SeInterpola_umbral_inclusivo(bandas) ==
    /\ Len(bandas) > indice_mayo
    /\ ~Less(Num(UmbralInterpolacion), pct_validos(bandas[indice_mayo + 1]))
    /\ ~isnan_real(pct_validos(bandas[indice_mayo + 1]))
    /\ Len(bandas) > indice_junio
    /\ Len(bandas) > indice_abril

\* Whether PASO 3.5 replaces bandas_ndvi[indice_mayo].
SeInterpola(bandas) ==
    /\ Len(bandas) > indice_mayo
    /\ Less(pct_validos(bandas[indice_mayo + 1]), Num(UmbralInterpolacion))
    /\ Len(bandas) > indice_junio
    /\ Len(bandas) > indice_abril

\* bandas_ndvi after PASO 3.5.
Interpolar(bandas) ==
    IF SeInterpola(bandas)
    THEN [bandas EXCEPT ![indice_mayo + 1] =
              mayo_interpolado(bandas[indice_mayo + 1],
                               bandas[indice_abril + 1],
                               bandas[indice_junio + 1])]
    ELSE bandas

\* Whether the masks of PASO 3.5 can be built and applied: the slices at
\* indice_abril, indice_mayo and indice_junio have one shape.  Shapes that
\* do not broadcast raise ValueError where the masks are combined; shapes
\* that do give a mask that is not of the shape of one of the arrays it
\* indexes, which raises IndexError.
FormasCompatibles(bandas) ==
    /\ Height(bandas[indice_mayo + 1]) = Height(bandas[indice_abril + 1])
    /\ Width(bandas[indice_mayo + 1]) = Width(bandas[indice_abril + 1])
    /\ Height(bandas[indice_mayo + 1]) = Height(bandas[indice_junio + 1])
    /\ Width(bandas[indice_mayo + 1]) = Width(bandas[indice_junio + 1])

Paso35 ==
    /\ script = "cs"
    /\ pc = "paso35"
    /\ IF SeInterpola(bandas_ndvi) /\ ~FormasCompatibles(bandas_ndvi)
       THEN Abortar(<<bandas_ndvi>>)
       ELSE /\ bandas_ndvi' = Interpolar(bandas_ndvi)
            /\ pc' = "paso4"
            /\ UNCHANGED exit_code
    /\ UNCHANGED <<script, disk, verano, ndvi_files, ndvi_nombres,
                   areas_validas, porcentajes_validos, recorte_comun,
                   nuevo_transform, ventana_leida, banda_verano,
                   bandas_leidas, estadisticos, salida, nombres_txt>>
    /\ UNCHANGED <<lecturas, otros_scripts>>

-----------------------------------------------------------------------------
(* PASO 4: the statistics along the time axis.                               *)

\* The values of one pixel along axis 0 of np.stack(bandas_ndvi, axis=0).
Serie(bandas, r, c) == [k \in 1..Len(bandas) |-> bandas[k][r][c]]

\* The non-NaN values of a series, in order.
SinNaN(serie) == SelectSeq(serie, LAMBDA x : ~isnan(x))

RECURSIVE Insertar(_, _)
Insertar(x, s) ==
    IF s = <<>> THEN <<x>>
    ELSE IF Less32(s[1], x) THEN <<s[1]>> \o Insertar(x, Tail(s))
    ELSE <<x>> \o s

RECURSIVE Ordenar(_)
Ordenar(s) == IF s = <<>> THEN <<>> ELSE Insertar(s[1], Ordenar(Tail(s)))

\* nanmedian without the sort: the middle of the non-NaN values as stacked.
nanmedian_sin_ordenar(serie) ==
    LET v == SinNaN(serie)
        n == Len(v)
    IN  IF n = 0 THEN NaN
        ELSE IF n % 2 = 1 THEN v[(n + 1) \div 2]
        ELSE Mitad32(Add32(v[n \div 2], v[n \div 2 + 1]))

\* np.nanmedian of one series: the middle of the sorted non-NaN values, the
\* float32 sum of the two middle ones divided by 2 when their count is even,
\* NaN when every value is NaN.
nanmedian(serie) ==
    LET v == Ordenar(SinNaN(serie))
        n == Len(v)
    IN  IF n = 0 THEN NaN
        ELSE IF n % 2 = 1 THEN v[(n + 1) \div 2]
        ELSE Mitad32(Add32(v[n \div 2], v[n \div 2 + 1]))

RECURSIVE Reducir(_, _, _)
\* op.reduce along axis 0: the slices are combined one by one, in order.
Reducir(op(_, _), serie, i) ==
    IF i = 1 THEN serie[1] ELSE op(Reducir(op, serie, i - 1), serie[i])

\* np.minimum: NaN when either operand is NaN.
minimum(a, b) ==
    IF isnan(a) \/ isnan(b) THEN NaN ELSE IF Less32(b, a) THEN b ELSE a

\* np.fmin / np.fmax: the other operand when one is NaN.
fmin(a, b) ==
    IF isnan(a) THEN b ELSE IF isnan(b) THEN a
    ELSE IF Less32(b, a) THEN b ELSE a
fmax(a, b) ==
    IF isnan(a) THEN b ELSE IF isnan(b) THEN a
    ELSE IF Less32(a, b) THEN b ELSE a

\* np.nanmin, np.nanmax of one series
nanmin(serie) == Reducir(fmin, serie, Len(serie))
nanmax(serie) == Reducir(fmax, serie, Len(serie))

\* nanvar with ddof = 1: the squared deviations divided by the count less one.
nanvar_muestral(serie) ==
    LET arr == [k \in 1..Len(serie) |->
                   IF isnan(serie[k]) THEN Cero ELSE serie[k]]
        cnt == Cardinality({k \in 1..Len(serie) : ~isnan(serie[k])})
        avg == DivCount32(Reducir(Add32, arr, Len(arr)), cnt)
        sqr == [k \in 1..Len(serie) |->
                   IF isnan(serie[k]) THEN Cero
                   ELSE Mul32(Sub32(arr[k], avg), Sub32(arr[k], avg))]
    IN  DivCount32(Reducir(Add32, sqr, Len(sqr)), cnt - 1)

\* np.nanvar of one series as numpy computes it, in float32: NaN replaced by
\* 0, the sum divided by the count of non-NaN values, the deviations of the
\* non-NaN values squared, summed and divided by that count.
nanvar(serie) ==
    LET arr == [k \in 1..Len(serie) |->
                   IF isnan(serie[k]) THEN Cero ELSE serie[k]]
        cnt == Cardinality({k \in 1..Len(serie) : ~isnan(serie[k])})
        avg == DivCount32(Reducir(Add32, arr, Len(arr)), cnt)
        sqr == [k \in 1..Len(serie) |->
                   IF isnan(serie[k]) THEN Cero
                   ELSE Mul32(Sub32(arr[k], avg), Sub32(arr[k], avg))]
    IN  DivCount32(Reducir(Add32, sqr, Len(sqr)), cnt)

\* np.nanstd of one series
nanstd(serie) == Sqrt32(nanvar(serie))

\* A reduction applied at every pixel of the stack.
PorPixel(f(_), bandas) ==
    [r \in 1..Height(bandas[1]) |->
        [c \in 1..Width(bandas[1]) |-> f(Serie(bandas, r, c))]]

\* mediana, minimo, maximo, desviacion
Estadisticos(bandas) ==
    [mediana |-> PorPixel(nanmedian, bandas),
     minimo |-> PorPixel(nanmin, bandas),
     maximo |-> PorPixel(nanmax, bandas),
     desviacion |-> PorPixel(nanstd, bandas)]

Forma(a) == <<Height(a), Width(a)>>

\* np.stack raises ValueError unless every array has the same shape.
MismaForma(bandas) ==
    \A i \in 1..Len(bandas) : Forma(bandas[i]) = Forma(bandas[1])

Paso4 ==
    /\ pc = "paso4"
    /\ IF ~MismaForma(bandas_ndvi)
       THEN Abortar(<<estadisticos>>)
       ELSE /\ estadisticos' = Estadisticos(bandas_ndvi)
            /\ pc' = "paso5"
            /\ UNCHANGED exit_code
    /\ UNCHANGED <<script, disk, verano, ndvi_files, ndvi_nombres,
                   areas_validas, porcentajes_validos, recorte_comun,
                   nuevo_transform, ventana_leida, banda_verano, bandas_ndvi,
                   bandas_leidas, salida, nombres_txt>>
    /\ UNCHANGED <<lecturas, otros_scripts>>


-----------------------------------------------------------------------------
(* PASO 5: the output raster and the band-name manifest.                     *)

\* bandas_finales with the statistics in the order mediana, max, min, sd.
bandas_finales_max_min(bv, est, bandas) ==
    <<bv, est.mediana, est.maximo, est.minimo, est.desviacion>> \o bandas
\* bandas_finales with the monthly slices as they were read, before PASO 3.5.
bandas_finales_sin_relleno(bv, est, bandas) ==
    <<bv, est.mediana, est.minimo, est.maximo, est.desviacion>>
        \o bandas_leidas

bandas_finales(bv, est, bandas) ==
    <<bv, est.mediana, est.minimo, est.maximo, est.desviacion>> \o bandas

nombres_finales(nombres) ==
    <<"inta_verano", "mediana", "min", "max", "sd">> \o nombres

\* zip(bandas_finales, nombres_finales) stops at the shorter list.
Emparejar(bf, nf) ==
    [i \in 1..(IF Len(bf) < Len(nf) THEN Len(bf) ELSE Len(nf)) |->
        [datos |-> bf[i], nombre |-> nf[i]]]

\* The bands dst.write accepts before one of the wrong shape raises.
RECURSIVE Aceptadas(_, _, _, _)
Aceptadas(pares, i, height, width) ==
    IF i > Len(pares) \/ Forma(pares[i].datos) # <<height, width>> THEN 0
    ELSE 1 + Aceptadas(pares, i + 1, height, width)

\* The manifest: line i is "Banda i: nombre".
Manifiesto(nf) == [i \in 1..Len(nf) |-> <<i, nf[i]>>]

Paso5 ==
    /\ pc = "paso5"
    /\ LET bf == bandas_finales(banda_verano, estadisticos, bandas_ndvi)
           nf == nombres_finales(ndvi_nombres)
           pares == Emparejar(bf, nf)
           n == Aceptadas(pares, 1, recorte_comun.height, recorte_comun.width)
       IN  IF recorte_comun.width <= 0 \/ recorte_comun.height <= 0
           THEN \* the GeoTIFF driver refuses to create an empty raster
                Abortar(<<salida, nombres_txt, banda_verano, bandas_ndvi,
                          estadisticos>>)
           ELSE IF n < Len(pares)
           THEN \* dst.write raises on the first band of another shape
                /\ salida' = [escrito |-> TRUE, count |-> Len(bf),
                              width |-> recorte_comun.width,
                              height |-> recorte_comun.height,
                              transform |-> nuevo_transform,
                              bandas |-> SubSeq(pares, 1, n),
                              nombres |-> [i \in 1..n |-> pares[i].nombre]]
                /\ Abortar(<<nombres_txt, banda_verano, bandas_ndvi,
                             estadisticos>>)
           ELSE /\ salida' = [escrito |-> TRUE, count |-> Len(bf),
                              width |-> recorte_comun.width,
                              height |-> recorte_comun.height,
                              transform |-> nuevo_transform,
                              bandas |-> pares,
                              nombres |-> [i \in 1..Len(pares) |->
                                              pares[i].nombre]]
                /\ nombres_txt' = Manifiesto(nf)
                \* del bandas_finales, banda_verano, mediana, minimo,
                \* maximo, desviacion, bandas_ndvi: the names are unbound
                \* again, as before their first assignment
                /\ banda_verano' = <<>>
                /\ bandas_ndvi' = <<>>
                /\ estadisticos' = SinEstadisticos
                /\ pc' = "fin"
                /\ exit_code' = 0
    /\ UNCHANGED <<script, disk, verano, ndvi_files, ndvi_nombres,
                   areas_validas, porcentajes_validos, recorte_comun,
                   nuevo_transform, ventana_leida, bandas_leidas>>
    /\ UNCHANGED <<lecturas, otros_scripts>>

\* The data of the monthly bands of the output, bands 6 onward.
MensualesEscritas ==
    [k \in 1..(Len(salida.bandas) - 5) |-> salida.bandas[5 + k].datos]

\* The statistics bands of the output, bands 2 to 5.
EstadisticosEscritos ==
    [mediana |-> salida.bandas[2].datos, minimo |-> salida.bandas[3].datos,
     maximo |-> salida.bandas[4].datos, desviacion |-> salida.bandas[5].datos]

\* The category band, the monthly slices and the statistics of a run: what
\* the names banda_verano, bandas_ndvi and mediana, minimo, maximo,
\* desviacion hold while they are bound, and what was written from them once
\* PASO 5 has written the raster and deleted the names.
CategoriaDelRun ==
    IF pc = "fin" THEN salida.bandas[1].datos ELSE banda_verano

MensualesDelRun == IF pc = "fin" THEN MensualesEscritas ELSE bandas_ndvi

EstadisticosDelRun ==
    IF pc = "fin" THEN EstadisticosEscritos ELSE estadisticos

-----------------------------------------------------------------------------
(* Input files.                                                              *)


\* The transform of a north-up raster of the given height with unit pixels
\* whose lower left corner is the origin.
TransformUnidad(height) ==
    [a |-> Num(1), c |-> Num(0), e |-> Num(-1), f |-> Num(height)]

\* The nodata marker some files declare.
Marcador == DeEntero(-9999)

\* A monthly NDVI file holding `data`.
ArchivoNDVI(data, tiene_nodata) ==
    [existe |-> TRUE, height |-> Height(data), width |-> Width(data),
     crs |-> CrsNDVI, transform |-> TransformUnidad(Height(data)),
     tiene_nodata |-> tiene_nodata, nodata |-> Marcador, data |-> data]

\* The state of a run before its first statement.
Arranque(s, d, v) ==
    /\ script = s
    /\ pc = "paso1"
    /\ exit_code = -1
    /\ disk = d
    /\ verano = v
    /\ ndvi_files = <<>>
    /\ ndvi_nombres = <<>>
    /\ areas_validas = <<>>
    /\ porcentajes_validos = <<>>
    /\ recorte_comun = SinRecorte
    /\ nuevo_transform = SinTransform
    /\ ventana_leida = FALSE
    /\ banda_verano = <<>>
    /\ bandas_ndvi = <<>>
    /\ bandas_leidas = <<>>
    /\ estadisticos = SinEstadisticos
    /\ salida = SinSalida
    /\ nombres_txt = <<>>
    /\ lecturas = <<>>
    /\ pred = <<>>
    /\ pred_filtrado = <<>>
    /\ pendientes = <<>>
    /\ tarea = SinTarea
    /\ retorno = ""
    /\ descarga = SinDescarga
    /\ coleccion = {}
    /\ teselado = SinTeselado


\* The grid of the rasters the pipeline specifications read.
Grilla == [rows |-> 2, cols |-> 3]

\* A categorical raster on the grid of NDVI files of rows x cols samples:
\* category 10 + c in column c, the declared nodata value 255 in the last
\* column of row 0.
VeranoSobre(rows, cols) ==
    [existe |-> TRUE, height |-> rows, width |-> cols,
     crs |-> CrsNDVI, transform |-> TransformUnidad(rows),
     tiene_nodata |-> TRUE, nodata |-> DeEntero(255),
     data |-> [r \in 1..rows |->
                 [c \in 1..cols |->
                     IF r = 1 /\ c = cols THEN DeEntero(255)
                     ELSE DeEntero(10 + c)]]]

VeranoMismoGrid == VeranoSobre(Grilla.rows, Grilla.cols)

\* The categorical raster on a larger grid that starts one pixel to the left
\* of and one pixel above the NDVI files.
VeranoOtroGrid ==
    [existe |-> TRUE, height |-> Grilla.rows + 2, width |-> Grilla.cols + 2,
     crs |-> CrsNDVI,
     transform |-> [a |-> Num(1), c |-> Num(-1), e |-> Num(-1),
                    f |-> Num(Grilla.rows + 1)],
     tiene_nodata |-> TRUE, nodata |-> DeEntero(255),
     data |-> [r \in 1..(Grilla.rows + 2) |->
                 [c \in 1..(Grilla.cols + 2) |->
                     IF r = 2 /\ c = 2 THEN DeEntero(255)
                     ELSE DeEntero(10 + c)]]]

\* The categorical raster on the grid of the NDVI files, georeferenced in
\* the other system.
VeranoOtroCRS == EnOtroCRS(VeranoMismoGrid, CrsMNC)

\* The categorical rasters of the pipeline specifications.
Veranos == {Ausente, VeranoMismoGrid, VeranoOtroGrid, VeranoOtroCRS}

SoloMes(m, f) == [k \in Meses |-> IF k = m THEN f ELSE Ausente]

-----------------------------------------------------------------------------
(* SpecDetector: PASO 1 and PASO 2 of both scripts on one monthly raster of  *)
(* DetRows x DetCols samples, every pattern of missing samples, the missing  *)
(* samples stored as NaN, as the declared nodata value, or as that value in  *)
(* a file that declares none.                                                *)

DetRows == 2
DetCols == 3

Codificaciones == {"nan", "declarado", "sin_declarar"}

RasterDet(validas, cod) ==
    ArchivoNDVI([r \in 1..DetRows |->
                    [c \in 1..DetCols |->
                        IF <<r, c>> \in validas THEN DeEntero(1)
                        ELSE IF cod = "nan" THEN NaN ELSE Marcador]],
                cod = "declarado")

InitDetector ==
    \E s \in {"base", "cs"}, cod \in Codificaciones,
       validas \in SUBSET ((1..DetRows) \X (1..DetCols)) :
        Arranque(s, SoloMes(1, RasterDet(validas, cod)),
                 VeranoSobre(DetRows, DetCols))

NextDetector == Paso1Base \/ Paso1CS \/ Paso2Base \/ Paso2CS

SpecDetector == InitDetector /\ [][NextDetector]_vars

\* The 0-based positions of the non-missing samples of an array.
NoFaltantes(data) ==
    {<<r, c>> \in (0..(Height(data) - 1)) \X (0..(Width(data) - 1)) :
        ~isnan(data[r + 1][c + 1])}

FilasDe(V) == {p[1] : p \in V}
ColsDe(V) == {p[2] : p \in V}

\* The positions inside a window.
CeldasDe(a) ==
    (a.fila_inicio..(a.fila_fin - 1)) \X (a.col_inicio..(a.col_fin - 1))

EsRectangulo(V) ==
    V # {} /\ V = (MinDe(FilasDe(V))..MaxDe(FilasDe(V)))
                  \X (MinDe(ColsDe(V))..MaxDe(ColsDe(V)))

\* C3: for every analysed raster with a non-missing sample, the window
\* starts at the first row (column) holding a non-missing sample and ends one
\* past the last such row (column); when the non-missing samples are exactly
\* a rectangle, the window is that rectangle.
C3_VentanaValida ==
    \A i \in 1..Len(areas_validas) :
        LET V == NoFaltantes(DatosAnalizados(disk, ndvi_files, i))
            a == areas_validas[i]
        IN  V # {} =>
              /\ a.valida
              /\ a.fila_inicio = MinDe(FilasDe(V))
              /\ a.fila_fin = MaxDe(FilasDe(V)) + 1
              /\ a.col_inicio = MinDe(ColsDe(V))
              /\ a.col_fin = MaxDe(ColsDe(V)) + 1
              /\ (EsRectangulo(V) => CeldasDe(a) = V)

\* A raster was analysed whose window spans an interior column without any
\* non-missing sample.
C3_Testigo ==
    \E i \in 1..Len(areas_validas) :
        LET V == NoFaltantes(DatosAnalizados(disk, ndvi_files, i))
            a == areas_validas[i]
        IN  /\ a.valida
            /\ \E c \in (a.col_inicio + 1)..(a.col_fin - 2) : c \notin ColsDe(V)
            /\ a.fila_inicio > 0

-----------------------------------------------------------------------------
(* SpecGap: script cs on seven monthly rasters of one row of NPix samples.   *)
(* April, May and June hold every pattern of missing samples; the other     *)
(* months are complete.                                                      *)

NPix == 3

ValoresAbril == {NaN, DeFraccion(4, 10)}
ValoresMayo == {NaN, DeFraccion(9, 10)}
ValoresJunio == {NaN, DeFraccion(6, 10)}

Fila(valores) == ArchivoNDVI(<<valores>>, FALSE)

DiscoGap(abril, mayo, junio) ==
    [m \in Meses |->
        IF m = indice_abril + 1 THEN Fila(abril)
        ELSE IF m = indice_mayo + 1 THEN Fila(mayo)
        ELSE IF m = indice_junio + 1 THEN Fila(junio)
        ELSE Fila([c \in 1..NPix |-> DeFraccion(m, 10)])]

InitGap ==
    \E abril \in [1..NPix -> ValoresAbril], mayo \in [1..NPix -> ValoresMayo],
       junio \in [1..NPix -> ValoresJunio] :
        Arranque("cs", DiscoGap(abril, mayo, junio), VeranoSobre(1, NPix))

NextGap == Paso1CS \/ Paso2CS \/ Paso3CS \/ Paso35 \/ Paso4 \/ Paso5

SpecGap == InitGap /\ [][NextGap]_vars

\* The step of PASO 3.5 in which the slice at indice_mayo is replaced.
CorreInterpolacion ==
    /\ pc = "paso35"
    /\ pc' = "paso4"
    /\ Len(bandas_ndvi) > indice_junio
    /\ Less(pct_validos(bandas_ndvi[indice_mayo + 1]), Num(UmbralInterpolacion))

\* The value the filled slice must hold where the target is missing, given
\* the previous-slice value a and the next-slice value b.
Relleno(a, b) ==
    IF ~isnan(a) /\ ~isnan(b) THEN Mitad32(Add32(a, b))
    ELSE IF ~isnan(a) THEN a
    ELSE IF ~isnan(b) THEN b
    ELSE NaN

\* C1: when the gap filler runs, every pixel missing in the target slice
\* becomes (a+b)/2 if the previous-slice value a and the next-slice value b
\* are both valid, a if only a is valid, b if only b is valid, and stays
\* missing if neither is valid.
C1_ReglaDeRelleno ==
    [][CorreInterpolacion =>
        \A r \in 1..Height(bandas_ndvi[indice_mayo + 1]),
           c \in 1..Width(bandas_ndvi[indice_mayo + 1]) :
            isnan(bandas_ndvi[indice_mayo + 1][r][c]) =>
                bandas_ndvi'[indice_mayo + 1][r][c] =
                    Relleno(bandas_ndvi[indice_abril + 1][r][c],
                            bandas_ndvi[indice_junio + 1][r][c])]_vars

\* After PASO 3.5, one pixel missing in the May file holds 0.5, the mean of
\* April's 0.4 and June's 0.6, another holds April's value alone, and a third
\* is still missing.
C1_Testigo ==
    /\ script = "cs"
    /\ pc = "paso4"
    /\ \E c1, c2, c3 \in 1..NPix :
        /\ \A c \in {c1, c2, c3} : isnan(disk[indice_mayo + 1].data[1][c])
        /\ disk[indice_abril + 1].data[1][c1] = DeFraccion(4, 10)
        /\ disk[indice_junio + 1].data[1][c1] = DeFraccion(6, 10)
        /\ bandas_ndvi[indice_mayo + 1][1][c1] = DeFraccion(1, 2)
        /\ ~isnan(disk[indice_abril + 1].data[1][c2])
        /\ isnan(disk[indice_junio + 1].data[1][c2])
        /\ bandas_ndvi[indice_mayo + 1][1][c2] = disk[indice_abril + 1].data[1][c2]
        /\ isnan(disk[indice_abril + 1].data[1][c3])
        /\ isnan(disk[indice_junio + 1].data[1][c3])
        /\ isnan(bandas_ndvi[indice_mayo + 1][1][c3])

\* C2: the gap filler never alters a pixel that is valid in the target slice:
\* across the step of PASO 3.5 every non-missing pixel of the slice at
\* indice_mayo keeps its value, and so does every pixel of the other slices.
C2_ValidosIntactos ==
    [][pc = "paso35" =>
        /\ Len(bandas_ndvi') = Len(bandas_ndvi)
        /\ \A k \in 1..Len(bandas_ndvi) :
            \A r \in 1..Height(bandas_ndvi[k]), c \in 1..Width(bandas_ndvi[k]) :
                (k # indice_mayo + 1 \/ ~isnan(bandas_ndvi[k][r][c])) =>
                    bandas_ndvi'[k][r][c] = bandas_ndvi[k][r][c]]_vars

\* After PASO 3.5 filled a pixel of the May slice from valid April and June
\* values, another pixel, valid in the May file, still holds the file's value
\* although April and June are valid there too.
C2_Testigo ==
    /\ script = "cs"
    /\ pc = "paso4"
    /\ \E c1, c2 \in 1..NPix :
        /\ isnan(disk[indice_mayo + 1].data[1][c1])
        /\ ~isnan(bandas_ndvi[indice_mayo + 1][1][c1])
        /\ ~isnan(disk[indice_mayo + 1].data[1][c2])
        /\ ~isnan(disk[indice_abril + 1].data[1][c2])
        /\ ~isnan(disk[indice_junio + 1].data[1][c2])
        /\ bandas_ndvi[indice_mayo + 1][1][c2] = disk[indice_mayo + 1].data[1][c2]

-----------------------------------------------------------------------------
(* SpecAlign: script base on the first MaxArchivos months, each absent or a  *)
(* raster of the grid whose non-missing samples fill one rectangle or none.  *)

MaxArchivos == 2

\* The rectangles of the grid, as <<first row, last row, first column, last
\* column>> (1-based, inclusive), and the empty one.
Rectangulos ==
    {<<f1, f2, c1, c2>> \in (1..Grilla.rows) \X (1..Grilla.rows)
                            \X (1..Grilla.cols) \X (1..Grilla.cols) :
        f1 <= f2 /\ c1 <= c2} \cup {<<1, 0, 1, 0>>}

RasterRect(m, q) ==
    ArchivoNDVI([r \in 1..Grilla.rows |->
                    [c \in 1..Grilla.cols |->
                        IF q[1] <= r /\ r <= q[2] /\ q[3] <= c /\ c <= q[4]
                        THEN DeFraccion(m, 10) ELSE NaN]],
                FALSE)

InitAlign ==
    \E presentes \in SUBSET (1..MaxArchivos),
       rect \in [1..MaxArchivos -> Rectangulos],
       v \in Veranos :
        Arranque("base",
                 [m \in Meses |-> IF m \in presentes
                                  THEN RasterRect(m, rect[m]) ELSE Ausente],
                 v)

NextAlign == Paso1Base \/ Paso2Base \/ Paso3Base \/ Paso4 \/ Paso5

SpecAlign == InitAlign /\ [][NextAlign]_vars

\* The non-missing samples of each found raster that has any.
ConDatos ==
    {NoFaltantes(DatosAnalizados(disk, ndvi_files, i)) :
        i \in 1..Len(ndvi_files)} \ {{}}

\* PASO 2 of script base has computed the common window.
RecorteCalculado ==
    script = "base" /\ areas_validas # SinArea /\ ConDatos # {}

\* The common window has no pixel.
Degenerado == recorte_comun.width <= 0 \/ recorte_comun.height <= 0

\* C4: the common window of the intersection policy starts at the maximum of
\* the starts and ends at the minimum of the ends of the windows of the
\* rasters that have valid data, by rows and by columns; rasters without
\* valid data contribute nothing.
C4_Interseccion ==
    RecorteCalculado =>
        /\ recorte_comun.fila_inicio = MaxDe({MinDe(FilasDe(V)) : V \in ConDatos})
        /\ recorte_comun.fila_fin = MinDe({MaxDe(FilasDe(V)) + 1 : V \in ConDatos})
        /\ recorte_comun.col_inicio = MaxDe({MinDe(ColsDe(V)) : V \in ConDatos})
        /\ recorte_comun.col_fin = MinDe({MaxDe(ColsDe(V)) + 1 : V \in ConDatos})

\* The common window was computed from two rasters with different windows
\* that overlap, next to none.
C4_Testigo ==
    /\ RecorteCalculado
    /\ Cardinality(ConDatos) = 2
    /\ ~Degenerado
    /\ \A V \in ConDatos : CeldasDe(recorte_comun) # V

\* The common window was computed from a raster with valid data and one
\* without any.
C4_TestigoSinDatos ==
    /\ RecorteCalculado
    /\ Len(ndvi_files) = 2
    /\ Cardinality(ConDatos) = 1
    /\ \E V \in ConDatos : CeldasDe(recorte_comun) = V

\* C5: whenever the common window has width <= 0 or height <= 0, the run
\* aborts before any band is read with that window and before any output is
\* written.
C5_DegeneradoEsFatal ==
    (RecorteCalculado /\ Degenerado) =>
        /\ ~ventana_leida
        /\ ~salida.escrito
        /\ pc \in {"paso2", "paso3", "abortado"}

-----------------------------------------------------------------------------
(* SpecReducer: both scripts on the first n <= MaxSlices months, rasters of  *)
(* one row of three samples.  The outer samples are valid in every month, so *)
(* the common window is the whole row; the middle sample takes every series  *)
(* of ValoresSerie.                                                          *)

MaxSlices == 4

ValoresSerie == {NaN, DeFraccion(2, 10), DeFraccion(5, 10), DeFraccion(8, 10)}

ConBordes(v) ==
    ArchivoNDVI(<<<<DeFraccion(5, 10), v, DeFraccion(5, 10)>>>>, FALSE)

\* A run on the first n <= max months, the middle sample of month m being
\* the m-th value of any series of ValoresSerie.
InitSeries(max) ==
    \E s \in {"base", "cs"}, n \in 1..max :
        \E serie \in [1..n -> ValoresSerie] :
            Arranque(s,
                     [m \in Meses |-> IF m <= n THEN ConBordes(serie[m])
                                      ELSE Ausente],
                     VeranoSobre(1, 3))

InitReducer == InitSeries(MaxSlices)

NextReducer ==
    \/ Paso1Base \/ Paso2Base \/ Paso3Base
    \/ Paso1CS \/ Paso2CS \/ Paso3CS \/ Paso35
    \/ Paso4 \/ Paso5

SpecReducer == InitReducer /\ [][NextReducer]_vars

\* PASO 4 has run on the stack bandas_ndvi and PASO 5 has not yet deleted
\* its results.
Reducido == estadisticos # SinEstadisticos

\* The pixels of the stack.
Pixeles(bandas) == (1..Height(bandas[1])) \X (1..Width(bandas[1]))

\* The indices of the non-missing values of a series.
Validos(serie) == {k \in 1..Len(serie) : ~isnan(serie[k])}

\* The k-th smallest of the non-missing values of a series.
Kesimo(serie, k) ==
    CHOOSE x \in {serie[i] : i \in Validos(serie)} :
        /\ Cardinality({i \in Validos(serie) : Less32(serie[i], x)}) < k
        /\ Cardinality({i \in Validos(serie) : ~Less32(x, serie[i])}) >= k

\* The median of the non-missing values: the middle one, or the mean of the
\* two middle ones.
MedianaDe(serie) ==
    LET n == Cardinality(Validos(serie))
    IN  IF n % 2 = 1 THEN Kesimo(serie, (n + 1) \div 2)
        ELSE Mitad32(Add32(Kesimo(serie, n \div 2), Kesimo(serie, n \div 2 + 1)))

\* The float32 sum of a sequence, left to right.
RECURSIVE SumaDe(_)
SumaDe(v) ==
    IF Len(v) = 1 THEN v[1]
    ELSE Add32(SumaDe(SubSeq(v, 1, Len(v) - 1)), v[Len(v)])

\* The population standard deviation of the non-missing values: the root of
\* the mean of their squared deviations from their mean.
DesvPoblacional(serie) ==
    LET v == SinNaN(serie)
        n == Len(v)
        media == DivCount32(SumaDe(v), n)
        cuadrados == [i \in 1..n |->
                         Mul32(Sub32(v[i], media), Sub32(v[i], media))]
    IN  Sqrt32(DivCount32(SumaDe(cuadrados), n))

\* C6: at every pixel with at least one non-missing value along the stack,
\* min is the smallest and max the largest of the non-missing values, median
\* is their median (the mean of the two middle ones when their count is
\* even) and sd is the population standard deviation of exactly the
\* non-missing values.
C6_IgnoraFaltantes ==
    Reducido =>
        \A p \in Pixeles(bandas_ndvi) :
            LET serie == Serie(bandas_ndvi, p[1], p[2])
                V == {serie[i] : i \in Validos(serie)}
            IN  V # {} =>
                  /\ estadisticos.minimo[p[1]][p[2]] \in V
                  /\ \A x \in V : ~Less32(x, estadisticos.minimo[p[1]][p[2]])
                  /\ estadisticos.maximo[p[1]][p[2]] \in V
                  /\ \A x \in V : ~Less32(estadisticos.maximo[p[1]][p[2]], x)
                  /\ estadisticos.mediana[p[1]][p[2]] = MedianaDe(serie)
                  /\ estadisticos.desviacion[p[1]][p[2]] = DesvPoblacional(serie)

\* The series 0.2, missing, 0.5, 0.8 was reduced to median 0.5, min 0.2,
\* max 0.8 and sd 0.24494898 (the float32 16438248 * 2^-26), the population
\* standard deviation of the three valid samples to the last bit but one.
C6_Testigo ==
    /\ Reducido
    /\ Serie(bandas_ndvi, 1, 2) =
         <<DeFraccion(2, 10), NaN, DeFraccion(5, 10), DeFraccion(8, 10)>>
    /\ estadisticos.mediana[1][2] = DeFraccion(5, 10)
    /\ estadisticos.minimo[1][2] = DeFraccion(2, 10)
    /\ estadisticos.maximo[1][2] = DeFraccion(8, 10)
    /\ estadisticos.desviacion[1][2] =
         [nan |-> FALSE, sig |-> 1, m |-> 16438248, e |-> -26]

\* C7: a pixel missing in every slice is NaN in median, min, max and sd, a
\* pixel valid in at least one slice is non-missing in all four, and no run
\* aborts.
C7_TodoFaltante ==
    /\ pc # "abortado"
    /\ Reducido =>
        \A p \in Pixeles(bandas_ndvi) :
            LET falta == Validos(Serie(bandas_ndvi, p[1], p[2])) = {}
            IN  /\ isnan(estadisticos.mediana[p[1]][p[2]]) = falta
                /\ isnan(estadisticos.minimo[p[1]][p[2]]) = falta
                /\ isnan(estadisticos.maximo[p[1]][p[2]]) = falta
                /\ isnan(estadisticos.desviacion[p[1]][p[2]]) = falta

\* A run ended with status 0 on a stack of three slices in which one pixel is
\* missing in every slice, next to pixels that are not.
C7_Testigo ==
    /\ pc = "fin"
    /\ exit_code = 0
    /\ Len(MensualesEscritas) = 3
    /\ Validos(Serie(MensualesEscritas, 1, 2)) = {}
    /\ isnan(EstadisticosEscritos.desviacion[1][2])
    /\ ~isnan(EstadisticosEscritos.desviacion[1][1])

-----------------------------------------------------------------------------
(* SpecOrden: the runs of SpecReducer on at most MaxPermutadas months, for   *)
(* the comparison of every reduced stack with all its reorderings.           *)

MaxPermutadas == 3

InitOrden == InitSeries(MaxPermutadas)

SpecOrden == InitOrden /\ [][NextReducer]_vars

\* The permutations of 1..n.
Permutaciones(n) ==
    {p \in [1..n -> 1..n] : \A i, j \in 1..n : p[i] = p[j] => i = j}

\* The stack with its slices in the order p.
Permutar(bandas, p) == [k \in 1..Len(bandas) |-> bandas[p[k]]]

\* C8 as stated: for every permutation of the time slices, the median, min,
\* max and sd outputs are identical at every pixel.
C8_OrdenIndiferente ==
    Reducido =>
        \A p \in Permutaciones(Len(bandas_ndvi)) :
            Estadisticos(Permutar(bandas_ndvi, p)) = estadisticos

\* C8, amended: for every permutation of the time slices, the median, min and
\* max outputs are identical at every pixel, and so is the sd output at every
\* pixel with at most two non-missing values; with three or more the float32
\* sums behind sd are rounded in stacking order.
C8_OrdenSalvoRedondeo ==
    Reducido =>
        \A p \in Permutaciones(Len(bandas_ndvi)) :
            LET e == Estadisticos(Permutar(bandas_ndvi, p))
            IN  /\ e.mediana = estadisticos.mediana
                /\ e.minimo = estadisticos.minimo
                /\ e.maximo = estadisticos.maximo
                /\ \A q \in Pixeles(bandas_ndvi) :
                     Cardinality(Validos(Serie(bandas_ndvi, q[1], q[2]))) <= 2
                        => e.desviacion[q[1]][q[2]] =
                             estadisticos.desviacion[q[1]][q[2]]

\* The series 0.2, 0.2, 0.5 was reduced; stacked as 0.5, 0.2, 0.2 it has the
\* same median, min and max and an sd that differs in the last bit.
C8_Testigo ==
    /\ Reducido
    /\ Serie(bandas_ndvi, 1, 2) =
         <<DeFraccion(2, 10), DeFraccion(2, 10), DeFraccion(5, 10)>>
    /\ LET e == Estadisticos(Permutar(bandas_ndvi, <<3, 1, 2>>))
       IN  /\ e.mediana = estadisticos.mediana
           /\ e.minimo = estadisticos.minimo
           /\ e.maximo = estadisticos.maximo
           /\ e.desviacion[1][2] # estadisticos.desviacion[1][2]
           /\ Sub32(e.desviacion[1][2], estadisticos.desviacion[1][2]).e <= -49

-----------------------------------------------------------------------------
(* Spec: both scripts on the grid, every subset of the seven monthly files   *)
(* present.  A monthly raster holds m/10 in every sample; the May raster may *)
(* instead be valid in its first column only (a third of its samples).  The  *)
(* categorical raster is missing, on the grid, or on the larger grid.        *)

Completo(m) ==
    ArchivoNDVI([r \in 1..Grilla.rows |->
                    [c \in 1..Grilla.cols |-> DeFraccion(m, 10)]],
                FALSE)

Parcial(m) ==
    ArchivoNDVI([r \in 1..Grilla.rows |->
                    [c \in 1..Grilla.cols |->
                        IF c = 1 THEN DeFraccion(m, 10) ELSE NaN]],
                FALSE)

Init ==
    \E s \in {"base", "cs"}, presentes \in SUBSET Meses,
       mayo_parcial \in BOOLEAN,
       v \in Veranos :
        Arranque(s,
                 [m \in Meses |->
                     IF m \notin presentes THEN Ausente
                     ELSE IF m = indice_mayo + 1 /\ mayo_parcial
                     THEN Parcial(m)
                     ELSE Completo(m)],
                 v)

Next ==
    \/ Paso1Base \/ Paso2Base \/ Paso3Base
    \/ Paso1CS \/ Paso2CS \/ Paso3CS \/ Paso35
    \/ Paso4 \/ Paso5

Spec == Init /\ [][Next]_vars

\* The months whose file is on disk, and the k-th of them in month-list
\* order.
Encontrados == {m \in Meses : disk[m].existe}
MesEncontrado(k) ==
    CHOOSE m \in Encontrados : Cardinality({j \in Encontrados : j <= m}) = k

\* The label and the data band i of the output must carry.
EtiquetaEsperada(i) ==
    IF i = 1 THEN "inta_verano"
    ELSE IF i = 2 THEN "mediana"
    ELSE IF i = 3 THEN "min"
    ELSE IF i = 4 THEN "max"
    ELSE IF i = 5 THEN "sd"
    ELSE "NDVI_" \o NDVI_MESES[MesEncontrado(i - 5)]

DatosEsperados(i) ==
    IF i = 1 THEN banda_verano
    ELSE IF i = 2 THEN estadisticos.mediana
    ELSE IF i = 3 THEN estadisticos.minimo
    ELSE IF i = 4 THEN estadisticos.maximo
    ELSE IF i = 5 THEN estadisticos.desviacion
    ELSE bandas_ndvi[i - 5]

\* C9: every step that writes the output raster writes 5 + N bands for the
\* N monthly rasters found: the category band, mediana, min, max, sd as the
\* run holds them when the step begins, then the monthly bands in month-list
\* order, and band i carries the label of the i-th entry of that order, in
\* the raster and in the manifest.
C9_OrdenDeBandas ==
    [][(~salida.escrito /\ salida'.escrito) =>
        /\ salida'.count = 5 + Cardinality(Encontrados)
        /\ Len(salida'.bandas) = salida'.count
        /\ \A i \in 1..salida'.count :
            /\ salida'.bandas[i].nombre = EtiquetaEsperada(i)
            /\ salida'.nombres[i] = EtiquetaEsperada(i)
            /\ nombres_txt'[i] = <<i, EtiquetaEsperada(i)>>
            /\ salida'.bandas[i].datos = DatosEsperados(i)
        /\ \A k \in 1..Cardinality(Encontrados) :
            bandas_leidas[k] =
                IF script = "base"
                THEN LeerRecortada(disk[MesEncontrado(k)], recorte_comun)
                ELSE LeerCompletaYRecortar(disk[MesEncontrado(k)],
                                           recorte_comun)]_vars

\* An output of 8 bands was written from three monthly rasters that are not
\* the first three of the month list, with min below max.
C9_Testigo ==
    /\ salida.escrito
    /\ salida.count = 8
    /\ Encontrados = {2, 4, 7}
    /\ salida.nombres =
         <<"inta_verano", "mediana", "min", "max", "sd", "NDVI_2024-01",
           "NDVI_2024-03", "NDVI_2024-06">>
    /\ Less32(salida.bandas[3].datos[1][1], salida.bandas[4].datos[1][1])

\* The monthly slice of month k as script cs reads it.
RebanadaDelMes(k) == LeerCompletaYRecortar(disk[k], recorte_comun)

\* C10: every output raster script cs writes has, in bands 6 to 12, the seven
\* monthly slices of the month list in order: band 5 + k is month k, labelled
\* with it, whichever monthly files are on disk.
C10_BandasSeisADoce ==
    (script = "cs" /\ salida.escrito) =>
        \A k \in Meses :
            /\ Len(salida.bandas) >= 5 + k
            /\ salida.bandas[5 + k].nombre = Nombre(k)
            /\ disk[k].existe
            /\ bandas_leidas[k] = RebanadaDelMes(k)

-----------------------------------------------------------------------------
(* PASO 3.5 and the month list.                                              *)

\* PASO 3.5 of script cs is about to run on a list long enough for it to
\* test the slice at indice_mayo.
PruebaMayo ==
    script = "cs" /\ pc = "paso35" /\ Len(bandas_ndvi) > indice_mayo

\* C11: the slice PASO 3.5 tests and may fill is the May 2024 slice and the
\* neighbours it reads are the April 2024 and June 2024 slices, whichever
\* monthly files are on disk.
C11_SiempreMayo ==
    PruebaMayo =>
        /\ ndvi_nombres[indice_mayo + 1] = "NDVI_2024-05"
        /\ bandas_ndvi[indice_mayo + 1] = RebanadaDelMes(indice_mayo + 1)
        /\ SeInterpola(bandas_ndvi) =>
             /\ ndvi_nombres[indice_abril + 1] = "NDVI_2024-04"
             /\ ndvi_nombres[indice_junio + 1] = "NDVI_2024-06"

-----------------------------------------------------------------------------
(* SpecUmbral: script cs on monthly rasters of one row of NUmbral samples.   *)
(* May holds every pattern of missing samples, the other months are          *)
(* complete; all seven files are on disk, or all but one.                    *)

NUmbral == 4

\* The month whose file is not on disk; 0 when all are.
Faltantes == {0, 1, indice_abril + 1, indice_junio + 1}

\* The month whose raster lacks the last column of the others; 0 when none.
Cortos == {0, indice_abril + 1, indice_mayo + 1, indice_junio + 1}

DiscoUmbral(mayo, falta, corto) ==
    [m \in Meses |->
        IF m = falta THEN Ausente
        ELSE LET ancho == IF m = corto THEN NUmbral - 1 ELSE NUmbral
             IN  IF m = indice_mayo + 1
                 THEN Fila([c \in 1..ancho |-> mayo[c]])
                 ELSE Fila([c \in 1..ancho |-> DeFraccion(m, 10)])]

InitUmbral ==
    \E mayo \in [1..NUmbral -> ValoresMayo], falta \in Faltantes,
       corto \in Cortos :
        Arranque("cs", DiscoUmbral(mayo, falta, corto),
                 VeranoSobre(1, NUmbral))

SpecUmbral == InitUmbral /\ [][NextGap]_vars

\* Twice the number of non-missing samples of an array is below its size.
BajoLaMitad(a) ==
    2 * Cardinality(NoFaltantes(a)) < Height(a) * Width(a)

\* C12: the monthly slices differ from what PASO 3 read only in the slice at
\* indice_mayo, and only when that slice was read with less than 50% of its
\* samples non-missing and the slices at indice_abril and indice_junio exist;
\* otherwise every monthly slice is exactly as it was read.
C12_SoloBajoElUmbral ==
    /\ Len(MensualesDelRun) = Len(bandas_leidas)
    /\ \A k \in 1..Len(MensualesDelRun) :
         k # indice_mayo + 1 => MensualesDelRun[k] = bandas_leidas[k]
    /\ MensualesDelRun # bandas_leidas =>
         /\ Len(bandas_leidas) > indice_junio
         /\ BajoLaMitad(bandas_leidas[indice_mayo + 1])

\* PASO 3.5 has run on seven slices, the one at indice_mayo with exactly half
\* of its samples missing where April and June have values, and has left it
\* as read.
C12_Testigo ==
    /\ script = "cs"
    /\ pc = "paso4"
    /\ Len(bandas_leidas) > indice_junio
    /\ LET mayo == bandas_leidas[indice_mayo + 1]
       IN  /\ 2 * Cardinality(NoFaltantes(mayo)) = Height(mayo) * Width(mayo)
           /\ Cardinality(NoFaltantes(mayo)) > 0
           /\ bandas_ndvi = bandas_leidas

-----------------------------------------------------------------------------
(* SpecGrid: both scripts on the first MaxArchivos months, each absent or a  *)
(* raster of one of three sizes: the grid, the grid without its last column, *)
(* or a strip one column wide and tall enough for a margin of one row.  A    *)
(* raster is complete, valid in its first column only, or without any valid  *)
(* sample.                                                                   *)

\* The first height the 5% margin trims a row of.
AltoConMargen == 100 \div PorcentajeRecorte

Tamanos ==
    {<<Grilla.rows, Grilla.cols>>, <<Grilla.rows, Grilla.cols - 1>>,
     <<AltoConMargen, 1>>}

Contenidos == {"completo", "parcial", "vacio"}

RasterGrid(m, tam, cont) ==
    ArchivoNDVI([r \in 1..tam[1] |->
                    [c \in 1..tam[2] |->
                        IF cont = "completo" \/ (cont = "parcial" /\ c = 1)
                        THEN DeFraccion(m, 10) ELSE NaN]],
                FALSE)

InitGrid ==
    \E s \in {"base", "cs"}, presentes \in SUBSET (1..MaxArchivos),
       tam \in [1..MaxArchivos -> Tamanos],
       cont \in [1..MaxArchivos -> Contenidos],
       v \in Veranos :
        Arranque(s,
                 [m \in Meses |->
                     IF m \in presentes THEN RasterGrid(m, tam[m], cont[m])
                     ELSE Ausente],
                 v)

SpecGrid == InitGrid /\ [][Next]_vars

\* C13: every written output raster holds all its 5 + N bands, each of
\* exactly the common window's height and width, which are the height and
\* width of the output's metadata.
C13_GrillaComun ==
    salida.escrito =>
        /\ salida.height = recorte_comun.height
        /\ salida.width = recorte_comun.width
        /\ salida.count = 5 + Len(ndvi_files)
        /\ Len(salida.bandas) = salida.count
        /\ \A i \in 1..Len(salida.bandas) :
             Forma(salida.bandas[i].datos) = <<salida.height, salida.width>>
        /\ Forma(CategoriaDelRun) = <<salida.height, salida.width>>
        /\ \A k \in 1..Len(MensualesDelRun) :
             Forma(MensualesDelRun[k]) = <<salida.height, salida.width>>

\* Script cs has written an output from two monthly rasters whose common
\* window is the first raster's extent less a margin of one row at each end.
C13_Testigo ==
    /\ script = "cs"
    /\ salida.escrito
    /\ Len(ndvi_files) = 2
    /\ recorte_comun.fila_inicio = 1
    /\ salida.height = disk[ndvi_files[1]].height - 2
    /\ Len(salida.bandas) = 7

-----------------------------------------------------------------------------
(* SpecMargen: PASO 1 and PASO 2 of script cs on two monthly rasters of the  *)
(* same size, whose sides are 1, a multiple of AltoConMargen or one pixel    *)
(* short of it; each raster is complete, valid in its first column only, or *)
(* without any valid sample.                                                 *)

\* The largest margin, in pixels, the sides of SpecMargen reach.
MaxMargen == 2

Lados ==
    {1} \cup {k * AltoConMargen + d : k \in 1..MaxMargen, d \in {-1, 0}}

InitMargen ==
    \E alto \in Lados, ancho \in Lados,
       cont \in [1..2 -> Contenidos] :
        Arranque("cs",
                 [m \in Meses |->
                     IF m <= 2 THEN RasterGrid(m, <<alto, ancho>>, cont[m])
                     ELSE Ausente],
                 Ausente)

NextMargen == Paso1CS \/ Paso2CS

SpecMargen == InitMargen /\ [][NextMargen]_vars

\* floor(5% of n)
CincoPorCiento(n) == CHOOSE k \in 0..n : 100 * k <= 5 * n /\ 5 * n < 100 * (k + 1)

\* PASO 2 of script cs has computed the common window.
MargenCalculado == script = "cs" /\ pc = "paso3"

\* C14: the common window of script cs is the extent of the reference
\* raster (the first found file) less floor(5% of the height) rows at the top
\* and at the bottom and floor(5% of the width) columns at the left and at
\* the right, whatever the valid windows and valid fractions of the rasters.
C14_MargenFijo ==
    MargenCalculado =>
        LET ref == disk[MesEncontrado(1)]
            ph == CincoPorCiento(ref.height)
            pw == CincoPorCiento(ref.width)
        IN  /\ recorte_comun.fila_inicio = ph
            /\ recorte_comun.fila_fin = ref.height - ph
            /\ recorte_comun.col_inicio = pw
            /\ recorte_comun.col_fin = ref.width - pw
            /\ recorte_comun.height = ref.height - 2 * ph
            /\ recorte_comun.width = ref.width - 2 * pw

\* The common window trims two rows and one column at each border of a
\* reference raster whose own valid window is its first column, the other
\* raster having no valid sample.
C14_Testigo ==
    /\ MargenCalculado
    /\ recorte_comun.fila_inicio = 2
    /\ recorte_comun.col_inicio = 1
    /\ recorte_comun.col_fin = disk[1].width - 1
    /\ areas_validas[1].valida
    /\ areas_validas[1].col_fin = 1
    /\ ~areas_validas[2].valida
    /\ Less(porcentajes_validos[1], Num(UmbralProblematico))

\* C30: the fixed-margin common window of script cs is never degenerate: for
\* every reference raster of height >= 1 and width >= 1 it has height >= 1
\* and width >= 1, lies inside the reference extent (0 <= start < end <= size
\* on both axes) and trims as many rows at the bottom as at the top and as
\* many columns at the right as at the left.
C30_MargenNoDegenerado ==
    MargenCalculado =>
        LET ref == disk[ndvi_files[1]]
        IN  /\ ref.height >= 1 /\ ref.width >= 1
            /\ recorte_comun.height >= 1
            /\ recorte_comun.width >= 1
            /\ 0 <= recorte_comun.fila_inicio
            /\ recorte_comun.fila_inicio < recorte_comun.fila_fin
            /\ recorte_comun.fila_fin <= ref.height
            /\ 0 <= recorte_comun.col_inicio
            /\ recorte_comun.col_inicio < recorte_comun.col_fin
            /\ recorte_comun.col_fin <= ref.width
            /\ ref.height - recorte_comun.fila_fin = recorte_comun.fila_inicio
            /\ ref.width - recorte_comun.col_fin = recorte_comun.col_inicio

\* The common window of a reference raster of one row is that row whole, and
\* the margin trimmed from its AltoConMargen columns is one column per side.
C30_Testigo ==
    /\ MargenCalculado
    /\ disk[ndvi_files[1]].height = 1
    /\ disk[ndvi_files[1]].width = AltoConMargen
    /\ recorte_comun.height = 1
    /\ recorte_comun.fila_inicio = 0
    /\ recorte_comun.col_inicio = 1
    /\ recorte_comun.width = AltoConMargen - 2

-----------------------------------------------------------------------------
(* SpecTransform: PASO 1 and PASO 2 of both scripts on one monthly raster:   *)
(* a raster of the grid whose valid samples fill a rectangle, or the         *)
(* complete strip, georeferenced by one of several transforms.               *)

\* Pixel sizes and origins of the reference raster.
TamanosDePixel == {Num(1), Frac(1, 3), Frac(3, 10)}
Origenes == {Num(0), Frac(-125, 2)}

\* North-up transforms: pixel width a, pixel height -e.
Transformes ==
    {[a |-> a, c |-> c, e |-> Sub(Num(0), e), f |-> f] :
        a \in TamanosDePixel, e \in {Num(1), Frac(3, 10)},
        c \in Origenes, f \in {Num(-38)}}

RastersTransform ==
    {RasterRect(1, q) : q \in Rectangulos}
        \cup {RasterGrid(1, <<AltoConMargen, 1>>, "completo")}

InitTransform ==
    \E s \in {"base", "cs"}, f \in RastersTransform, t \in Transformes :
        Arranque(s, SoloMes(1, [f EXCEPT !.transform = t]),
                 VeranoMismoGrid)

SpecTransform == InitTransform /\ [][NextDetector]_vars

\* transform * (col, row): the corner of a pixel.
Esquina(t, row, col) ==
    [x |-> Add(t.c, Mul(t.a, Num(col))), y |-> Add(t.f, Mul(t.e, Num(row)))]

\* The bounds PASO 2 built the transform from.
BoundsUsados ==
    IF script = "base"
    THEN NuevoBoundsBase(disk[ndvi_files[1]], recorte_comun)
    ELSE NuevoBoundsCS(disk[ndvi_files[1]])

\* The round trip of C15 read as an equality of doubles: both corners come
\* back bit for bit.  The far corner does not: (right - left) / width * width
\* is rounded twice, and for three pixels of 0.3 from the origin it comes back
\* one unit in the last place off the bound.
C15_IdaYVuelta ==
    (pc = "paso3" /\ recorte_comun.width > 0 /\ recorte_comun.height > 0) =>
        /\ Esquina(nuevo_transform, 0, 0) =
             [x |-> BoundsUsados.left, y |-> BoundsUsados.top]
        /\ Esquina(nuevo_transform, recorte_comun.height, recorte_comun.width)
             = [x |-> BoundsUsados.right, y |-> BoundsUsados.bottom]

AbsReal(x) == IF x.nan \/ x.m = <<>> THEN x ELSE [x EXCEPT !.sig = 1]

\* The relative tolerance of the round trip: 2^-50, eight units of rounding.
Tolerancia == [nan |-> FALSE, sig |-> 1, m |-> <<1>>, e |-> -50]

\* |x - y| <= Tolerancia * (|desde| + |y|)
Cerca(x, y, desde) ==
    ~Less(Mul(Tolerancia, Add(AbsReal(desde), AbsReal(y))),
          AbsReal(Sub(x, y)))

\* C15: once PASO 2 has built the transform of a common window of positive
\* width and height, in either pipeline, the transform maps pixel (row 0,
\* col 0) to the (left, top) corner and pixel (row height, col width) to the
\* (right, bottom) corner of the bounds it was built from, to floating-point
\* tolerance as the specification words it: the near corner bit for bit, the
\* far corner within 2^-50 of the sum of the magnitudes of the two ends of
\* the axis (the rounding of the division and of the product).
C15_IdaYVueltaConTolerancia ==
    (pc = "paso3" /\ recorte_comun.width > 0 /\ recorte_comun.height > 0) =>
        LET lejana == Esquina(nuevo_transform, recorte_comun.height,
                              recorte_comun.width)
        IN  /\ Esquina(nuevo_transform, 0, 0) =
                 [x |-> BoundsUsados.left, y |-> BoundsUsados.top]
            /\ Cerca(lejana.x, BoundsUsados.right, BoundsUsados.left)
            /\ Cerca(lejana.y, BoundsUsados.bottom, BoundsUsados.top)

\* C25: once PASO 2 has built the transform of a common window of positive
\* width and height, the output pixels have the size of the reference
\* pixels and output pixel (r, c) lies where reference pixel
\* (fila_inicio + r, col_inicio + c) does: the corners of the first and of
\* one past the last output pixel are those of the reference pixels.
C25_GeorreferenciaConservada ==
    (pc = "paso3" /\ recorte_comun.width > 0 /\ recorte_comun.height > 0) =>
        /\ nuevo_transform.a = disk[ndvi_files[1]].transform.a
        /\ nuevo_transform.e = disk[ndvi_files[1]].transform.e
        /\ Esquina(nuevo_transform, 0, 0) =
             Esquina(disk[ndvi_files[1]].transform,
                     recorte_comun.fila_inicio, recorte_comun.col_inicio)
        /\ Esquina(nuevo_transform, recorte_comun.height, recorte_comun.width)
             = Esquina(disk[ndvi_files[1]].transform,
                       recorte_comun.fila_fin, recorte_comun.col_fin)

\* Script base has built the transform of a window of three columns on a
\* reference raster with pixels 0.3 wide from the origin, and the far corner
\* comes back off the right bound by a rounding.
C15_Testigo ==
    /\ script = "base"
    /\ pc = "paso3"
    /\ recorte_comun.width = 3
    /\ recorte_comun.height > 0
    /\ recorte_comun.col_inicio = 0
    /\ disk[ndvi_files[1]].transform.a = Frac(3, 10)
    /\ disk[ndvi_files[1]].transform.c = Num(0)
    /\ Less(BoundsUsados.left, BoundsUsados.right)
    /\ Less(BoundsUsados.bottom, BoundsUsados.top)
    /\ Esquina(nuevo_transform, recorte_comun.height, 3).x
         # BoundsUsados.right
    /\ Cerca(Esquina(nuevo_transform, recorte_comun.height, 3).x,
             BoundsUsados.right, BoundsUsados.left)

\* Script cs has built the transform of the strip less its margin, on a
\* reference raster with pixels 0.3 high.
C15_TestigoCS ==
    /\ script = "cs"
    /\ pc = "paso3"
    /\ recorte_comun.fila_inicio = 1
    /\ disk[ndvi_files[1]].transform.e = Frac(-3, 10)
    /\ nuevo_transform.f = BoundsUsados.top
    /\ Less(nuevo_transform.f, Num(-38))

-----------------------------------------------------------------------------
(* The categorical raster file is absent.                                    *)

\* The positions of a run up to the statement that looks for the file of the
\* categorical raster, and the position of a run that has aborted: script
\* base tests the file before the inventory, script cs at the head of its
\* reading of the raster in PASO 3.
HastaLaBusqueda ==
    IF script = "base" THEN {"paso1", "abortado"}
    ELSE {"paso1", "paso2", "paso3", "abortado"}

\* C16: in both pipelines, a run whose categorical raster file is absent
\* gets no further than the statement that looks for the file, ends with a
\* non-zero exit status once it has run that statement, and writes neither
\* the output raster nor the manifest.
C16_FaltaVeranoEsFatal ==
    (script \in {"base", "cs"} /\ ~verano.existe) =>
        /\ pc \in HastaLaBusqueda
        /\ pc = "abortado" => exit_code > 0
        /\ ~salida.escrito
        /\ nombres_txt = <<>>

\* Script base alone keeps C16: it aborts at its first step with exit code
\* 1, before the inventory, and writes nothing.
C16_BaseEsFatal ==
    (script = "base" /\ ~verano.existe) =>
        /\ pc \in {"paso1", "abortado"}
        /\ pc = "abortado" => exit_code = 1
        /\ ndvi_files = <<>>
        /\ ~salida.escrito
        /\ nombres_txt = <<>>

\* Script base has aborted for the absent categorical raster with monthly
\* files on disk.
C16_Testigo ==
    /\ script = "base"
    /\ ~verano.existe
    /\ pc = "abortado"
    /\ exit_code = 1
    /\ Cardinality(Encontrados) = 7

\* Script cs has finished with exit status 0 without the categorical
\* raster: the output raster and the manifest are written, the category
\* band holding nothing but missing values.
C16_TestigoCS ==
    /\ script = "cs"
    /\ ~verano.existe
    /\ pc = "fin"
    /\ exit_code = 0
    /\ salida.escrito
    /\ Len(nombres_txt) = 12
    /\ NoFaltantes(salida.bandas[1].datos) = {}

-----------------------------------------------------------------------------
(* Empty results.                                                            *)

\* No monthly file on disk holds a non-missing sample (none may exist).
SinDatosValidos ==
    \A m \in Encontrados : NoFaltantes(AplicarNodata(read(disk[m]), disk[m])) = {}

\* The found months in month-list order.
ListaEncontrados ==
    [k \in 1..Cardinality(Encontrados) |-> MesEncontrado(k)]

\* C17: when no monthly file exists, or no found raster has a valid window,
\* the run gets no further than PASO 2, ends with exit code 1 and writes
\* neither the output raster nor the manifest.  When a monthly file with
\* valid data exists, the inventory does not abort (a run that stops in
\* PASO 1 is a run of script base without its categorical raster), it leaves
\* exactly the found files, in month-list order, with their labels, and
\* script base does not stop at the check of the valid windows.
C17_ResultadoVacioEsFatal ==
    /\ SinDatosValidos =>
         /\ pc \in {"paso1", "paso2", "abortado"}
         /\ pc = "abortado" => exit_code = 1
         /\ ~salida.escrito
         /\ nombres_txt = <<>>
    /\ (~SinDatosValidos /\ pc # "paso1"
            /\ (script = "base" => verano.existe)) =>
         /\ ndvi_files = ListaEncontrados
         /\ ndvi_nombres =
              [k \in 1..Len(ListaEncontrados) |->
                  "NDVI_" \o NDVI_MESES[ListaEncontrados[k]]]
         /\ (script = "base" /\ pc = "abortado") => recorte_comun # SinRecorte

\* A run has found two monthly rasters, neither with a valid sample, and has
\* aborted after analysing them.
C17_Testigo ==
    /\ SinDatosValidos
    /\ Cardinality(Encontrados) = 2
    /\ Len(areas_validas) = 2
    /\ pc = "abortado"
    /\ exit_code = 1

\* A run goes on after PASO 2 with the second month only, the first being
\* absent.
C17_TestigoSigue ==
    /\ ~SinDatosValidos
    /\ ndvi_files = <<2>>
    /\ pc = "paso3"

-----------------------------------------------------------------------------
(* SpecCobertura: script cs on monthly rasters of one row of three samples.  *)
(* A month up to April is absent, without valid samples, or valid in its     *)
(* first sample only (a third); May and June may also be complete.           *)

Coberturas(m) ==
    IF m > indice_abril + 1 THEN {"ausente", "vacio", "parcial", "completo"}
    ELSE {"ausente", "vacio", "parcial"}

RasterCobertura(m, cob) ==
    IF cob = "ausente" THEN Ausente
    ELSE RasterGrid(m, <<1, 3>>, cob)

InitCobertura ==
    \E cob \in [Meses -> {"ausente", "vacio", "parcial", "completo"}] :
        /\ \A m \in Meses : cob[m] \in Coberturas(m)
        /\ Arranque("cs", [m \in Meses |-> RasterCobertura(m, cob[m])],
                    VeranoSobre(1, 3))

SpecCobertura == InitCobertura /\ [][NextGap]_vars

\* The found months whose raster has valid samples, but fewer than half.
CoberturaParcial ==
    {m \in Encontrados :
        /\ NoFaltantes(read(disk[m])) # {}
        /\ BajoLaMitad(read(disk[m]))}

\* The disk with every raster that has a valid sample made complete.
DiscoSinParciales ==
    [m \in Meses |->
        IF disk[m].existe /\ NoFaltantes(read(disk[m])) # {}
        THEN RasterGrid(m, <<disk[m].height, disk[m].width>>, "completo")
        ELSE disk[m]]

\* Whether PASO 1 or PASO 2 of script cs stops the run on the files of d.
AbortaCS(d) ==
    \/ Inventario(d) = <<>>
    \/ FiltrarCS(AreasValidas(d, Inventario(d)),
                 Porcentajes(d, Inventario(d), 1)) = <<>>

\* C18: in script cs a run aborts only if it would also abort with every
\* raster of partial coverage replaced by a complete one; every found raster,
\* whatever its valid fraction, stays in the list of files, is read, is one
\* slice of the stack the statistics are computed from, and is written as
\* its own band 5 + k with its label, in the raster and in the manifest.
C18_CoberturaParcialNoEsFatal ==
    script = "cs" =>
        /\ pc = "abortado" => AbortaCS(DiscoSinParciales)
        /\ pc # "paso1" /\ Encontrados # {} => ndvi_files = ListaEncontrados
        /\ pc \in {"paso35", "paso4", "paso5", "fin"} =>
             /\ Len(MensualesDelRun) = Cardinality(Encontrados)
             /\ \A k \in 1..Len(ndvi_files) :
                  bandas_leidas[k] = RebanadaDelMes(ndvi_files[k])
        /\ pc \in {"paso5", "fin"} =>
             EstadisticosDelRun = Estadisticos(MensualesDelRun)
        /\ pc = "fin" =>
             \A k \in 1..Cardinality(Encontrados) :
                 /\ salida.bandas[5 + k] =
                      [datos |-> Interpolar(bandas_leidas)[k],
                       nombre |-> "NDVI_" \o NDVI_MESES[MesEncontrado(k)]]
                 /\ nombres_txt[5 + k] = <<5 + k, salida.bandas[5 + k].nombre>>

\* Script cs has finished on rasters all of partial coverage, May among them
\* as the sixth of seven slices.
C18_Testigo ==
    /\ script = "cs"
    /\ pc = "fin"
    /\ CoberturaParcial = Meses
    /\ Len(salida.bandas) = 12
    /\ salida.bandas[11].nombre = "NDVI_2024-05"
    /\ Cardinality(NoFaltantes(salida.bandas[11].datos)) = 1

-----------------------------------------------------------------------------
(* SpecLosas: PASO 1 to PASO 3 of script cs on one monthly raster of one row, *)
(* narrow, or just wide enough for a common window of CHUNK_SIZE + 1 columns *)
(* (two tiles).  The categorical raster has one row of pixels as wide as     *)
(* those of the grid or three times as wide, starts at or left of the grid's *)
(* origin, and declares 0 or 255 as its nodata value.                        *)

\* The width of the reference raster whose trimmed extent is one column
\* wider than a tile.
AnchoDosLosas ==
    CHOOSE w \in CHUNK_SIZE..(2 * CHUNK_SIZE) :
        w - 2 * pixeles_recorte(w) = CHUNK_SIZE + 1

\* The width of a narrow reference raster: one tile, one column of margin
\* on each side.
AnchoAngosto == AltoConMargen + 3

AnchosLosas == {AnchoAngosto, AnchoDosLosas}

\* The categories along the categorical raster, the markers 255 and 0 among
\* them.
Categoria(k) ==
    IF k % 5 = 0 THEN DeEntero(10)
    ELSE IF k % 5 = 1 THEN DeEntero(11)
    ELSE IF k % 5 = 2 THEN DeEntero(255)
    ELSE IF k % 5 = 3 THEN DeEntero(12)
    ELSE Cero

\* A categorical raster of one row that starts `corrido` units left of the
\* origin, with pixels `pixel` units wide, long enough to cover `ancho` units.
VeranoLosas(pixel, corrido, nodata, ancho) ==
    [existe |-> TRUE, height |-> 1,
     width |-> ((ancho + corrido) \div pixel) + 1,
     crs |-> CrsNDVI,
     transform |-> [a |-> Num(pixel), c |-> Num(-corrido), e |-> Num(-1),
                    f |-> Num(1)],
     tiene_nodata |-> TRUE, nodata |-> DeEntero(nodata),
     data |-> <<[k \in 1..(((ancho + corrido) \div pixel) + 1) |->
                    Categoria(k)]>>]

\* The systems a categorical raster is georeferenced in.
Sistemas == {CrsNDVI, CrsMNC}

InitLosas ==
    \E ancho \in AnchosLosas, pixel \in {1, 3}, corrido \in 0..3,
       nodata \in {0, 255}, crs \in Sistemas :
        Arranque("cs",
                 SoloMes(1, ArchivoNDVI(<<[c \in 1..ancho |-> DeFraccion(1, 10)]>>,
                                        FALSE)),
                 EnOtroCRS(VeranoLosas(pixel, corrido, nodata, ancho), crs))

NextLosas == Paso1CS \/ Paso2CS \/ Paso3CS

SpecLosas == InitLosas /\ [][NextLosas]_vars

\* The categorical raster reprojected onto the common grid in one pass, from
\* the whole raster, then the nodata substitution.
ReproyeccionEntera ==
    AplicarNodata(
        reproject_nearest(read(verano), verano.transform, verano.crs,
                          nuevo_transform, disk[ndvi_files[1]].crs,
                          recorte_comun.height, recorte_comun.width,
                          InitDest(recorte_comun.height, recorte_comun.width)),
        verano)

\* C19: the category band script cs builds tile by tile has, at every pixel
\* of the common grid, the value a single nearest-neighbour reprojection of
\* the whole categorical raster onto that grid gives.
C19_VentanasIgualEntera ==
    (script = "cs" /\ pc = "paso35" /\ verano.existe) =>
        banda_verano = ReproyeccionEntera

-----------------------------------------------------------------------------
(* Script recortar (recortar_mnc_coronel_suarez.py): the categorical raster  *)
(* reprojected tile by tile onto the full grid of the first monthly NDVI     *)
(* raster, written as a raster of one band.                                  *)

\* The category values the script treats as a mask.
EXCLUDE_VALUES == {0, 255}

\* The files glob("NDVI_*.tif") can match, as positions in the lexical order
\* of their names: NDVI_2023-11.tif, the months of NDVI_MESES, and
\* NDVI_2024-07.tif.
Directorio == 0..(Len(NDVI_MESES) + 1)

\* ndvi_files: sorted(glob("NDVI_*.tif")) on the directory d.
glob_ndvi(d) ==
    SelectSeq([k \in 1..(Len(NDVI_MESES) + 2) |-> k - 1],
              LAMBDA i : i \in DOMAIN d /\ d[i].existe)

\* The reference raster: ndvi_files[0], whatever its month.
ref_ndvi(d) == d[glob_ndvi(d)[1]]

\* mnc_recortado: the array filled with NaN that receives, tile by tile, the
\* samples of the reprojected tile that are not NaN after the conversion.
mnc_recortado(d, ver, version) ==
    BandaPorVentanas(ver, ref_ndvi(d).crs, ref_ndvi(d).transform,
                     ref_ndvi(d).height, ref_ndvi(d).width, version,
                     EXCLUDE_VALUES)

\* The reference parameters and the check of the categorical raster file.
RecortarReferencia ==
    /\ script = "recortar"
    /\ pc = "paso1"
    /\ IF glob_ndvi(disk) = <<>>
       THEN Abortar(<<ndvi_files>>)
       ELSE /\ ndvi_files' = glob_ndvi(disk)
            /\ IF ~verano.existe
               THEN /\ pc' = "abortado"
                    /\ exit_code' = 1
               ELSE /\ pc' = "ventanas"
                    /\ UNCHANGED exit_code
    /\ UNCHANGED <<script, disk, verano, ndvi_nombres, areas_validas,
                   porcentajes_validos, recorte_comun, nuevo_transform,
                   ventana_leida, banda_verano, bandas_ndvi, bandas_leidas,
                   estadisticos, salida, nombres_txt>>
    /\ UNCHANGED <<lecturas, otros_scripts>>

\* The tile loop and the output file.
RecortarVentanas ==
    /\ script = "recortar"
    /\ pc = "ventanas"
    /\ \E version \in VersionesRasterio :
         /\ banda_verano' = mnc_recortado(disk, verano, version)
         /\ salida' =
              [escrito |-> TRUE, count |-> 1,
               width |-> ref_ndvi(disk).width,
               height |-> ref_ndvi(disk).height,
               transform |-> ref_ndvi(disk).transform,
               bandas |-> <<[nombre |-> "MNC_verano_2024",
                             datos |-> banda_verano']>>,
               nombres |-> <<"MNC_verano_2024">>]
         /\ lecturas' =
              Lecturas(verano, ref_ndvi(disk).crs, ref_ndvi(disk).transform,
                       ref_ndvi(disk).height, ref_ndvi(disk).width, version)
    /\ pc' = "fin"
    /\ exit_code' = 0
    /\ UNCHANGED <<script, disk, verano, ndvi_files, ndvi_nombres,
                   areas_validas, porcentajes_validos, recorte_comun,
                   nuevo_transform, ventana_leida, bandas_ndvi, bandas_leidas,
                   estadisticos, nombres_txt>>
    /\ UNCHANGED otros_scripts

-----------------------------------------------------------------------------
(* SpecMarcadores: script recortar, and PASO 1 to PASO 3 of script cs, on    *)
(* the narrow rasters of SpecLosas, the categorical raster present or        *)
(* missing, in the system of the monthly rasters or in the other one.  The   *)
(* directory holds the December raster, a narrower NDVI_2023-11.tif and a    *)
(* wider NDVI_2024-07.tif, or some of them.                                  *)

\* A monthly raster of one row.
Franja(ancho) ==
    ArchivoNDVI(<<[c \in 1..ancho |-> DeFraccion(1, 10)]>>, FALSE)

\* The directory with the files of `presentes` among positions 0, 1 and the
\* last.
DirectorioCon(presentes) ==
    [i \in Directorio |->
        IF i \notin presentes THEN Ausente
        ELSE IF i = 0 THEN Franja(AnchoAngosto - 1)
        ELSE IF i = 1 THEN Franja(AnchoAngosto)
        ELSE Franja(AnchoAngosto + 1)]

InitMarcadores ==
    \E s \in {"cs", "recortar"}, pixel \in {1, 3}, corrido \in 0..3,
       nodata \in {0, 255}, falta \in BOOLEAN, crs \in Sistemas,
       presentes \in SUBSET {0, 1, Len(NDVI_MESES) + 1} :
        Arranque(s,
                 DirectorioCon(presentes),
                 IF falta THEN Ausente
                 ELSE EnOtroCRS(VeranoLosas(pixel, corrido, nodata,
                                            AnchoAngosto + 1), crs))

NextMarcadores ==
    \/ Paso1CS \/ Paso2CS \/ Paso3CS
    \/ RecortarReferencia \/ RecortarVentanas

SpecMarcadores == InitMarcadores /\ [][NextMarcadores]_vars

\* A sample that is the declared nodata value of the categorical raster or
\* one of the mask categories 0 and 255.
EsMarcador(v) ==
    \/ (verano.tiene_nodata /\ Eq32(v, verano.nodata))
    \/ \E x \in EXCLUDE_VALUES : Eq32(v, DeEntero(x))

\* C20: in the category band of script recortar and of script cs, built
\* from the categorical raster, no pixel carries the raster's nodata value
\* or an excluded category (0 or 255): every such resampled value is NaN.
C20_MarcadoresSonNaN ==
    (script \in {"cs", "recortar"} /\ verano.existe /\ banda_verano # <<>>) =>
        \A r \in 1..Height(banda_verano), c \in 1..Width(banda_verano) :
            ~EsMarcador(banda_verano[r][c])

-----------------------------------------------------------------------------
(* The scripts beside the pipelines: how a run of one of them starts.        *)

\* The two scripts that download the monthly rasters.
Descargadores == {"redescargar", "descargar"}

\* At most MaxConImagen months of a run have images in the collection that
\* obtener_imagen_sentinel2 filters; for the others it raises.
MaxConImagen == 2

Colecciones == {c \in SUBSET Meses : Cardinality(c) <= MaxConImagen}

\* Only the download scripts query the collection.
ColeccionesDe(s) == IF s \in Descargadores THEN Colecciones ELSE {{}}

\* The state of a run of one of the scripts beside the pipelines before its
\* first statement: raster p to filter, files d on disk and the list of
\* those to download again, grid and tile size of the tile loop.
ArranqueOtro(s, p, d, lista, tes) ==
    /\ script = s
    /\ pc = "paso1"
    /\ exit_code = -1
    /\ disk = d
    /\ verano = Ausente
    /\ ndvi_files = <<>>
    /\ ndvi_nombres = <<>>
    /\ areas_validas = <<>>
    /\ porcentajes_validos = <<>>
    /\ recorte_comun = SinRecorte
    /\ nuevo_transform = SinTransform
    /\ ventana_leida = FALSE
    /\ banda_verano = <<>>
    /\ bandas_ndvi = <<>>
    /\ bandas_leidas = <<>>
    /\ estadisticos = SinEstadisticos
    /\ salida = SinSalida
    /\ nombres_txt = <<>>
    /\ lecturas = <<>>
    /\ pred = p
    /\ pred_filtrado = <<>>
    /\ pendientes = lista
    /\ tarea = SinTarea
    /\ retorno = ""
    /\ descarga = SinDescarga
    /\ coleccion \in ColeccionesDe(s)
    /\ teselado = tes

\* No file on disk.
DiscoVacio == [m \in Meses |-> Ausente]

-----------------------------------------------------------------------------
(* Script mwm (MWM_filter/mwm_3_arroyos.py): the majority filter of the      *)
(* prediction raster.  The raster holds integer category codes in a signed   *)
(* integer type, -1 where there is no prediction; generic_filter hands the   *)
(* window to moda as float64 and stores what it returns in the type of the   *)
(* input, which is exact for these codes.                                    *)

\* NoNegativos that keeps every value of the window.
NoNegativos_sin_excluir(vecindario) == vecindario

\* vecindario[vecindario >= 0]
NoNegativos(vecindario) == SelectSeq(vecindario, LAMBDA v : v >= 0)

\* The values of the set S in increasing order, each once.
RECURSIVE EnOrden(_)
EnOrden(S) ==
    IF S = {} THEN <<>>
    ELSE LET menor == CHOOSE v \in S : \A w \in S : v <= w
         IN  <<menor>> \o EnOrden(S \ {menor})

\* np.unique(vec, return_counts=True)
unique(vec) ==
    LET valores == EnOrden({vec[i] : i \in 1..Len(vec)})
    IN  [valores |-> valores,
         conteos |-> [k \in 1..Len(valores) |->
                         Cardinality({i \in 1..Len(vec) : vec[i] = valores[k]})]]

\* argmax_conteos that returns the index of the last largest count.
argmax_conteos_ultimo(conteos) ==
    (CHOOSE k \in 1..Len(conteos) :
        /\ \A j \in 1..Len(conteos) : conteos[j] <= conteos[k]
        /\ \A j \in (k + 1)..Len(conteos) : conteos[j] < conteos[k]) - 1

\* np.argmax(conteos): the 0-based index of the first largest count.
argmax_conteos(conteos) ==
    (CHOOSE k \in 1..Len(conteos) :
        /\ \A j \in 1..Len(conteos) : conteos[j] <= conteos[k]
        /\ \A j \in 1..(k - 1) : conteos[j] < conteos[k]) - 1

\* moda(vecindario)
moda(vecindario) ==
    LET vec == NoNegativos(vecindario)
    IN  IF Len(vec) = 0 THEN -1
        ELSE LET u == unique(vec)
             IN  u.valores[argmax_conteos(u.conteos) + 1]

\* mode='nearest': an index outside the array is moved to the nearest edge.
AlBorde(i, n) == IF i < 0 THEN 0 ELSE IF i > n - 1 THEN n - 1 ELSE i

\* The 3x3 window of generic_filter(size=3, mode='nearest') around row r,
\* column c, row by row.
Vecindario(datos, r, c) ==
    [k \in 1..9 |->
        datos[AlBorde(r + ((k - 1) \div 3) - 1, Len(datos)) + 1]
             [AlBorde(c + ((k - 1) % 3) - 1, Len(datos[1])) + 1]]

\* generic_filter(pred, function=moda, size=3, mode='nearest')
generic_filter(datos) ==
    [r \in 1..Len(datos) |->
        [c \in 1..Len(datos[1]) |-> moda(Vecindario(datos, r - 1, c - 1))]]

\* The whole script: the raster is read, filtered and written as int32 with
\* nodata -1.
Mwm ==
    /\ script = "mwm"
    /\ pc = "paso1"
    /\ pred_filtrado' = generic_filter(pred)
    /\ pc' = "fin"
    /\ exit_code' = 0
    /\ UNCHANGED <<script, disk, verano, ndvi_files, ndvi_nombres,
                   areas_validas, porcentajes_validos, recorte_comun,
                   nuevo_transform, ventana_leida, banda_verano, bandas_ndvi,
                   bandas_leidas, estadisticos, salida, nombres_txt,
                   lecturas, pred, pendientes, tarea, retorno, descarga,
                   coleccion, teselado>>

-----------------------------------------------------------------------------
(* SpecModa: script mwm on every raster of MaxLado x MaxLado codes out of    *)
(* -1, 1 and 2, and on 3x3 rasters that hold the values 1,1,1,2,2,3,-1,-1,-1 *)
(* in two arrangements or nothing but -1.                                    *)

MaxLado == 2

Codigos == {-1, 1, 2}

PredEjemplo == <<<<1, 1, 1>>, <<2, 2, 3>>, <<-1, -1, -1>>>>
PredEjemploAlReves == <<<<-1, 3, -1>>, <<2, 1, -1>>, <<1, 2, 1>>>>
PredVacio == [r \in 1..3 |-> [c \in 1..3 |-> -1]]

RastersPred ==
    [1..MaxLado -> [1..MaxLado -> Codigos]]
        \cup {PredEjemplo, PredEjemploAlReves, PredVacio}

\* A run of script mwm on the raster p.
ArranqueMwm(p) == ArranqueOtro("mwm", p, DiscoVacio, <<>>, SinTeselado)

InitModa == \E p \in RastersPred : ArranqueMwm(p)

SpecModa == InitModa /\ [][Mwm]_vars

\* The values of the edge-replicated 3x3 neighbourhood of pixel (r, c) of
\* pred, with their multiplicity: the number of neighbours that hold v.
Votos(r, c, v) ==
    Cardinality({d \in (-1..1) \X (-1..1) :
        pred[AlBorde(r + d[1], Len(pred)) + 1]
            [AlBorde(c + d[2], Len(pred[1])) + 1] = v})

Candidatos(r, c) ==
    {v \in 0..3 : Votos(r, c, v) > 0}

\* C21: each output pixel is -1 when its neighbourhood holds no
\* non-negative value, and otherwise a non-negative value of the
\* neighbourhood that no other non-negative value outnumbers; the
\* neighbourhood 1,1,1,2,2,3,-1,-1,-1 gives 1.
C21_Mayoria ==
    (script = "mwm" /\ pc = "fin") =>
        /\ \A r \in 0..(Len(pred) - 1), c \in 0..(Len(pred[1]) - 1) :
             LET o == pred_filtrado[r + 1][c + 1]
             IN  IF Candidatos(r, c) = {} THEN o = -1
                 ELSE /\ o \in Candidatos(r, c)
                      /\ \A v \in Candidatos(r, c) :
                           Votos(r, c, v) <= Votos(r, c, o)
        /\ pred \in {PredEjemplo, PredEjemploAlReves} =>
             pred_filtrado[2][2] = 1
        /\ pred = PredVacio => pred_filtrado[2][2] = -1

\* The run on the example raster has ended with 1 at its centre.
C21_Testigo ==
    /\ script = "mwm" /\ pc = "fin"
    /\ pred = PredEjemplo
    /\ pred_filtrado[2][2] = 1

\* The non-negative values with the highest count in the neighbourhood of
\* pixel (r, c).
Empatados(r, c) ==
    {v \in Candidatos(r, c) :
        \A w \in Candidatos(r, c) : Votos(r, c, w) <= Votos(r, c, v)}

\* C22: where the neighbourhood of a pixel holds a non-negative value, the
\* output is the smallest of the values with the highest count, wherever
\* those values sit in the neighbourhood.
C22_EmpateAlMenor ==
    (script = "mwm" /\ pc = "fin") =>
        \A r \in 0..(Len(pred) - 1), c \in 0..(Len(pred[1]) - 1) :
            Candidatos(r, c) # {} =>
                /\ pred_filtrado[r + 1][c + 1] \in Empatados(r, c)
                /\ \A v \in Empatados(r, c) : pred_filtrado[r + 1][c + 1] <= v

\* Two values tie in the neighbourhood of the first pixel, the larger one
\* sits before the smaller one in the window, and the output is the smaller.
C22_Testigo ==
    /\ script = "mwm" /\ pc = "fin"
    /\ pred = <<<<-1, 2>>, <<1, -1>>>>
    /\ Empatados(0, 0) = {1, 2}
    /\ pred_filtrado[1][1] = 1

-----------------------------------------------------------------------------
(* SpecBordes: script recortar, and PASO 1 to PASO 3 of script cs, on the    *)
(* narrow monthly raster of SpecLosas and a categorical raster of one row    *)
(* that starts left of, at, inside or right of the grid, above, on or below  *)
(* its row, and ends inside or beyond it.                                    *)

OrigenesBorde == {-30, -5, 0, 4, 30}
TopesBorde == {0, 1, 2}
AnchosBorde == {3, 12, 40}

VeranoBorde(pixel, x0, top, ancho) ==
    [existe |-> TRUE, height |-> 1, width |-> ancho, crs |-> CrsNDVI,
     transform |-> [a |-> Num(pixel), c |-> Num(x0), e |-> Num(-1),
                    f |-> Num(top)],
     tiene_nodata |-> TRUE, nodata |-> DeEntero(255),
     data |-> <<[k \in 1..ancho |-> Categoria(k)]>>]

InitBordes ==
    \E s \in {"cs", "recortar"}, pixel \in {1, 3}, x0 \in OrigenesBorde,
       top \in TopesBorde, ancho \in AnchosBorde, crs \in Sistemas :
        Arranque(s,
                 SoloMes(1, Franja(AnchoAngosto)),
                 EnOtroCRS(VeranoBorde(pixel, x0, top, ancho), crs))

SpecBordes == InitBordes /\ [][NextMarcadores]_vars

\* The part of the span [off, off + len) of a computed window that lies in
\* an axis of n source pixels: its first pixel and one past its last.
Desde(off) == IF off < 0 THEN 0 ELSE off
Hasta(off, len, n) == IF off + len > n THEN n ELSE off + len

\* Whether the computed window w meets the extent of the categorical raster.
SeCruzan(w) ==
    /\ Desde(w.col_off) < Hasta(w.col_off, w.width, verano.width)
    /\ Desde(w.row_off) < Hasta(w.row_off, w.height, verano.height)

\* The intersection of the computed window w with that extent.
Interseccion(w) ==
    [col_off |-> Desde(w.col_off), row_off |-> Desde(w.row_off),
     width |-> Hasta(w.col_off, w.width, verano.width) - Desde(w.col_off),
     height |-> Hasta(w.row_off, w.height, verano.height) - Desde(w.row_off)]

\* Every pixel of the tile is NaN in the category band.
LosaFaltante(losa) ==
    \A r \in (losa.row_start + 1)..losa.row_end,
       c \in (losa.col_start + 1)..losa.col_end : isnan(banda_verano[r][c])

\* C23: for every tile, the source window read is the intersection of the
\* computed source window with the extent of the categorical raster, and
\* where they do not meet nothing is read and the tile stays NaN.
C23_LecturaEsInterseccion ==
    \A k \in 1..Len(lecturas) :
        IF SeCruzan(lecturas[k].calculada)
        THEN /\ lecturas[k].hay
             /\ lecturas[k].leida = Interseccion(lecturas[k].calculada)
        ELSE /\ ~lecturas[k].hay
             /\ LosaFaltante(lecturas[k].losa)

\* C29: every window the tile loop reads from the categorical raster lies
\* inside it: offsets at or above 0, at least one row and one column, and
\* offset plus length within the raster on both axes.
C29_LecturaDentro ==
    \A k \in 1..Len(lecturas) :
        lecturas[k].hay =>
            /\ lecturas[k].leida.col_off >= 0
            /\ lecturas[k].leida.row_off >= 0
            /\ lecturas[k].leida.width >= 1
            /\ lecturas[k].leida.height >= 1
            /\ lecturas[k].leida.col_off + lecturas[k].leida.width
                  <= verano.width
            /\ lecturas[k].leida.row_off + lecturas[k].leida.height
                  <= verano.height

\* A tile was read whose computed window starts left of the raster, and one
\* whose computed window ends beyond it.
C29_Testigo ==
    /\ Len(lecturas) > 0
    /\ lecturas[1].hay
    /\ lecturas[1].calculada.col_off < 0

C29_TestigoFin ==
    /\ Len(lecturas) > 0
    /\ lecturas[1].hay
    /\ lecturas[1].calculada.col_off + lecturas[1].calculada.width
          > verano.width

-----------------------------------------------------------------------------
(* SpecTeselado: the tile loop of the windowed reprojection by itself, on    *)
(* every grid of up to MaxGrilla x MaxGrilla pixels and every tile size up   *)
(* to MaxGrilla + 1.                                                         *)

MaxGrilla == 4

\* The loop over i and j, with the tile size as a parameter.
RecorrerLosas ==
    /\ script = "losas"
    /\ pc = "paso1"
    /\ teselado' =
         [teselado EXCEPT !.losas = Losas(teselado.height, teselado.width,
                                           teselado.chunk_size)]
    /\ pc' = "fin"
    /\ UNCHANGED <<script, exit_code, disk, verano, ndvi_files, ndvi_nombres,
                   areas_validas, porcentajes_validos, recorte_comun,
                   nuevo_transform, ventana_leida, banda_verano, bandas_ndvi,
                   bandas_leidas, estadisticos, salida, nombres_txt,
                   lecturas, pred, pred_filtrado, pendientes, tarea, retorno,
                   descarga, coleccion>>

InitTeselado ==
    \E h \in 1..MaxGrilla, w \in 1..MaxGrilla, cs \in 1..(MaxGrilla + 1) :
        ArranqueOtro("losas", <<>>, DiscoVacio, <<>>,
                     [height |-> h, width |-> w, chunk_size |-> cs,
                      losas |-> <<>>])

SpecTeselado == InitTeselado /\ [][RecorrerLosas]_vars

\* The tiles that hold pixel (r, c).
LosasCon(r, c) ==
    {k \in 1..Len(teselado.losas) :
        /\ teselado.losas[k].row_start <= r /\ r < teselado.losas[k].row_end
        /\ teselado.losas[k].col_start <= c /\ c < teselado.losas[k].col_end}

\* C24: the tiles the loop visits are non-empty, lie in the grid, and every
\* pixel of the grid is in exactly one of them: they are pairwise disjoint
\* and their union is the grid, so each pixel is written at most once.
C24_LosasParticionan ==
    (script = "losas" /\ pc = "fin") =>
        /\ \A k \in 1..Len(teselado.losas) :
             /\ 0 <= teselado.losas[k].row_start
             /\ teselado.losas[k].row_start < teselado.losas[k].row_end
             /\ teselado.losas[k].row_end <= teselado.height
             /\ 0 <= teselado.losas[k].col_start
             /\ teselado.losas[k].col_start < teselado.losas[k].col_end
             /\ teselado.losas[k].col_end <= teselado.width
        /\ \A r \in 0..(teselado.height - 1), c \in 0..(teselado.width - 1) :
             Cardinality(LosasCon(r, c)) = 1

\* A grid that is not a whole number of tiles on either axis was tiled: four
\* tiles, the last one smaller than the tile size.
C24_Testigo ==
    /\ script = "losas" /\ pc = "fin"
    /\ teselado.height = 3 /\ teselado.width = 3 /\ teselado.chunk_size = 2
    /\ Len(teselado.losas) = 4
    /\ teselado.losas[4] = [row_start |-> 2, row_end |-> 3,
                            col_start |-> 2, col_end |-> 3]


-----------------------------------------------------------------------------
(* The statistics of an output against the monthly bands of the same output. *)


\* C26: in every output raster written by the Coronel Suarez pipeline, bands
\* 2 to 5 (median, min, max, sd) are the reduction of exactly the monthly
\* bands written as bands 6 onward of the same file, and those bands are the
\* slices read after gap filling, so that a filled value enters the
\* statistics and the target slice is written filled.
C26_EstadisticosDeLoEscrito ==
    (script = "cs" /\ salida.escrito) =>
        /\ Len(salida.bandas) > 5
        /\ MensualesEscritas = Interpolar(bandas_leidas)
        /\ salida.bandas[2].datos = Estadisticos(MensualesEscritas).mediana
        /\ salida.bandas[3].datos = Estadisticos(MensualesEscritas).minimo
        /\ salida.bandas[4].datos = Estadisticos(MensualesEscritas).maximo
        /\ salida.bandas[5].datos = Estadisticos(MensualesEscritas).desviacion

\* An output was written in which a pixel missing in the May file holds the
\* mean 0.5 of April's 0.4 and June's 0.6 in band 6 + indice_mayo, and the
\* median band holds there 0.4, the middle of the seven values 0.1, 0.2,
\* 0.3, 0.4, 0.4, 0.5, 0.6 (the six values read have the median 0.35).
C26_Testigo ==
    /\ script = "cs"
    /\ salida.escrito
    /\ pc = "fin"
    /\ \E c \in 1..NPix :
        /\ isnan(disk[indice_mayo + 1].data[1][c])
        /\ disk[indice_abril + 1].data[1][c] = DeFraccion(4, 10)
        /\ disk[indice_junio + 1].data[1][c] = DeFraccion(6, 10)
        /\ salida.bandas[6 + indice_mayo].datos[1][c] = DeFraccion(1, 2)
        /\ Len(salida.bandas) = 5 + Cardinality(Meses)
        /\ salida.bandas[2].datos[1][c] = DeFraccion(4, 10)


-----------------------------------------------------------------------------
(* descargar_con_export of 0_get_rasters_coronel_suarez.py: an export task   *)
(* is created and started on the server, and polled every ten seconds until  *)
(* it is no longer active.  Any exception ends the function with None.       *)

\* Task.active(): the task is READY, RUNNING or CANCEL_REQUESTED.
Activos == {"READY", "RUNNING", "CANCEL_REQUESTED"}

\* The states the server moves a task to from the state e.
Sucesores(e) ==
    IF e = "READY" THEN {"RUNNING", "CANCEL_REQUESTED"}
    ELSE IF e = "RUNNING" THEN {"COMPLETED", "FAILED", "CANCEL_REQUESTED"}
    ELSE IF e = "CANCEL_REQUESTED" THEN {"CANCELLED"}
    ELSE {}

\* The time.sleep(10) calls of one run are counted up to MaxEsperas; the
\* loop has no bound of its own and sleeps on whatever the count.
MaxEsperas == 3

ContarEspera(n) == IF n < MaxEsperas THEN n + 1 ELSE n

\* What the function returns for the state it reads after the loop: True for
\* COMPLETED; FAILED and every other state raise, and the handler returns
\* None.
ResultadoExport(estado_final) ==
    IF estado_final = "COMPLETED" THEN "True" ELSE "None"

\* The Task object after a status request: whether the request stores the
\* state on the object depends on the release of the client library.
TrasConsulta(t) == IF t.refresca THEN [t EXCEPT !.state = t.servidor] ELSE t

\* The scripts that call descargar_imagen_gee in a loop over files, and the
\* scripts in which descargar_con_export runs: on its own (script "export")
\* or called by descargar_imagen_gee.
Exportadores == {"export"} \cup Descargadores

\* What the download scripts leave alone.
ajenas_a_descarga ==
    <<script, verano, ndvi_files, ndvi_nombres, areas_validas,
      porcentajes_validos, recorte_comun, nuevo_transform, ventana_leida,
      banda_verano, bandas_ndvi, bandas_leidas, estadisticos, salida,
      nombres_txt, lecturas, pred, pred_filtrado, coleccion,
      teselado>>

\* The download function returns valor: script "export" ends; a loop reports
\* the result and goes on to its next file.
Retornar(valor) ==
    /\ retorno' = valor
    /\ IF script = "export"
       THEN /\ pc' = "fin"
            /\ UNCHANGED <<pendientes, descarga>>
       ELSE /\ pc' = "bucle"
            /\ pendientes' = Tail(pendientes)
            /\ descarga' = SinDescarga

\* Whether the status request stores the state on the Task object: one
\* client library serves every task of a run.
Bibliotecas(t) ==
    IF t.servidor = "UNSUBMITTED" THEN BOOLEAN ELSE {t.refresca}

\* Export.image.toDrive and tarea.start(): a new task is READY on the
\* server and the attribute state of its Task object is the UNSUBMITTED the
\* constructor gave it, or one of the calls raises and the function returns
\* None.
IniciarExport ==
    /\ script \in Exportadores
    /\ pc = (IF script = "export" THEN "paso1" ELSE "export")
    /\ \E falla \in BOOLEAN, refresca \in Bibliotecas(tarea) :
        IF falla
        THEN /\ Retornar("None")
             /\ UNCHANGED tarea
        ELSE /\ tarea' = [SinTarea EXCEPT !.servidor = "READY",
                                          !.refresca = refresca]
             /\ pc' = "sondeo"
             /\ UNCHANGED <<retorno, pendientes, descarga>>
    /\ UNCHANGED <<exit_code, disk>>
    /\ UNCHANGED ajenas_a_descarga

\* One evaluation of "while tarea.active()": the status request raises; or
\* the task is active, its state is printed if it changed and the function
\* sleeps ten seconds; or the loop ends and the function returns by
\* tarea.state.
Sondear ==
    /\ script \in Exportadores
    /\ pc = "sondeo"
    /\ \E falla \in BOOLEAN :
        IF falla
        THEN /\ Retornar("None")
             /\ UNCHANGED tarea
        ELSE IF tarea.servidor \in Activos
        THEN /\ tarea' = [TrasConsulta(tarea) EXCEPT
                             !.estado_anterior = TrasConsulta(tarea).state,
                             !.esperas = ContarEspera(tarea.esperas)]
             /\ UNCHANGED <<pc, retorno, pendientes, descarga>>
        ELSE /\ tarea' = TrasConsulta(tarea)
             /\ Retornar(ResultadoExport(TrasConsulta(tarea).state))
    /\ UNCHANGED <<exit_code, disk>>
    /\ UNCHANGED ajenas_a_descarga

\* The server moves the task on while the function polls and sleeps.
Servidor ==
    /\ script \in Exportadores
    /\ pc = "sondeo"
    /\ \E e \in Sucesores(tarea.servidor) :
        tarea' = [tarea EXCEPT !.servidor = e]
    /\ UNCHANGED <<pc, exit_code, disk, pendientes, retorno, descarga>>
    /\ UNCHANGED ajenas_a_descarga

-----------------------------------------------------------------------------
(* SpecExport: one call of descargar_con_export beside the server that runs  *)
(* the task; SpecExportJusto adds that the function keeps running.           *)

InitExport == ArranqueOtro("export", <<>>, DiscoVacio, <<>>, SinTeselado)

NextExport == IniciarExport \/ Sondear \/ Servidor

SpecExport == InitExport /\ [][NextExport]_vars

SpecExportJusto ==
    SpecExport /\ WF_vars(IniciarExport) /\ WF_vars(Sondear)

\* The function has returned.
Retorno == script = "export" /\ retorno # ""

\* C28: descargar_con_export never returns while the export task is still
\* active, and it returns True if and only if the state of the task once it
\* is no longer active is COMPLETED; every other return is None.
C28_RetornoSegunEstado ==
    Retorno =>
        /\ tarea.servidor \notin Activos
        /\ retorno = "True" <=> tarea.servidor = "COMPLETED"
        /\ retorno \in {"True", "None"}

\* The function returns only None or True, True only for a COMPLETED task,
\* and while the task is active only None.
C28_SoloNoneMientrasActiva ==
    Retorno =>
        /\ retorno \in {"True", "None"}
        /\ retorno = "True" => tarea.servidor = "COMPLETED"

\* If the task eventually stops being active for good, the function returns.
C28_Termina ==
    (<>[](script = "export" /\ tarea.servidor \notin Activos)) => <>Retorno

\* The function returned None while the task was RUNNING.
C28_RetornoConTareaActiva ==
    /\ Retorno
    /\ retorno = "None"
    /\ tarea.servidor = "RUNNING"
    /\ tarea.esperas > 0


-----------------------------------------------------------------------------
(* descargar_imagen_gee of 0_get_rasters_coronel_suarez.py, as the two       *)
(* download loops call it (usar_export=False).  An action runs from one wait *)
(* of the code to the next: the requests to the server, each chunk of the    *)
(* body, the answer of the user, each sleep of the export.                   *)

\* RASTERS_PROBLEMATICOS, as indices into NDVI_MESES.
RASTERS_PROBLEMATICOS == <<1, 2, 4, 5, 6>>

\* The months of the list "meses", as indices into NDVI_MESES.
MesesADescargar == [i \in 1..Cardinality(Meses) |-> i]

\* A file that open(ruta, 'wb') created or emptied and that does not hold
\* the whole raster.
Truncado == [Ausente EXCEPT !.existe = TRUE]

\* ruta_archivo.unlink() under "if ruta_archivo.exists()"
unlink(d, m) == [d EXCEPT ![m] = Ausente]

\* How a call goes up to open(ruta_completa, 'wb'): imagen.getInfo()
\* raises; the download URL, the request or the opening raises; the URL is
\* refused by the size limit and descargar_con_export takes over; the file
\* is open, and empty.
Desenlaces == {"sin_info", "sin_url", "export", "abierto"}

\* What the wait for the body of the response ends with: one more chunk,
\* the end of the body, or an exception of the connection.
Llegadas == {"trozo", "fin", "corte"}

\* The chunks written to the file of one call are counted up to MaxTrozos;
\* the loop over the chunks has no bound of its own.
MaxTrozos == 2

ContarTrozo(n) == IF n < MaxTrozos THEN n + 1 ELSE n

\* obtener_imagen_sentinel2 for month m: it raises when the filtered
\* collection is empty (count == 0), and a request of its own may raise;
\* otherwise the image is there.
HayImagen(m) == IF m \in coleccion THEN BOOLEAN ELSE {FALSE}

\* inicializar_gee() at the head of both scripts: the script goes on, or
\* ends with exit status 1 (SystemExit(1), sys.exit(1)).
InicializarGEE ==
    /\ script \in Descargadores
    /\ pc = "paso1"
    /\ \E ok \in BOOLEAN :
        IF ok
        THEN /\ pc' = "bucle"
             /\ UNCHANGED exit_code
        ELSE Abortar(<<>>)
    /\ UNCHANGED <<script, disk, verano, ndvi_files, ndvi_nombres,
                   areas_validas, porcentajes_validos, recorte_comun,
                   nuevo_transform, ventana_leida, banda_verano, bandas_ndvi,
                   bandas_leidas, estadisticos, salida, nombres_txt,
                   lecturas, otros_scripts>>

\* "for archivo in RASTERS_PROBLEMATICOS" up to the download: the end of the
\* script after the last file; or obtener_imagen_sentinel2 raises and the
\* loop goes to the next file; or the image is there and the script removes
\* the file on disk, if there is one, and stands before the download.
PrepararRedescarga ==
    /\ script = "redescargar"
    /\ pc = "bucle"
    /\ IF pendientes = <<>>
       THEN /\ pc' = "fin"
            /\ exit_code' = 0
            /\ UNCHANGED <<disk, pendientes, retorno, descarga>>
       ELSE /\ \E hay_imagen \in HayImagen(Head(pendientes)) :
                IF ~hay_imagen
                THEN /\ retorno' = "excepcion"
                     /\ pendientes' = Tail(pendientes)
                     /\ UNCHANGED <<pc, disk, descarga>>
                ELSE /\ IF disk[Head(pendientes)].existe
                        THEN /\ disk' = unlink(disk, Head(pendientes))
                             /\ pc' = "eliminado"
                        ELSE /\ pc' = "descarga"
                             /\ UNCHANGED disk
                     /\ descarga' =
                          [SinDescarga EXCEPT
                              !.existia = disk[Head(pendientes)].existe]
                     /\ UNCHANGED <<pendientes, retorno>>
            /\ UNCHANGED exit_code
    /\ UNCHANGED tarea
    /\ UNCHANGED ajenas_a_descarga

\* main(), "for fecha in meses" up to the download or the question: the end
\* of main() after the last month; or obtener_imagen_sentinel2 raises and
\* the loop goes to the next month; or the file is on disk and the script
\* asks whether to overwrite it; or there is no file and the script stands
\* before the download.
DescargarMes ==
    /\ script = "descargar"
    /\ pc = "bucle"
    /\ IF pendientes = <<>>
       THEN /\ pc' = "fin"
            /\ exit_code' = 0
            /\ UNCHANGED <<pendientes, retorno, descarga>>
       ELSE /\ \E hay_imagen \in HayImagen(Head(pendientes)) :
                IF ~hay_imagen
                THEN /\ retorno' = "excepcion"
                     /\ pendientes' = Tail(pendientes)
                     /\ UNCHANGED <<pc, descarga>>
                ELSE /\ pc' = IF disk[Head(pendientes)].existe
                              THEN "pregunta" ELSE "descarga"
                     /\ descarga' =
                          [SinDescarga EXCEPT
                              !.existia = disk[Head(pendientes)].existe]
                     /\ UNCHANGED <<pendientes, retorno>>
            /\ UNCHANGED exit_code
    /\ UNCHANGED <<disk, tarea>>
    /\ UNCHANGED ajenas_a_descarga

\* input().strip().upper() as the script tells the answers apart: S, any
\* other line, or no line at all (EOFError, which the handler of the loop
\* body takes).
Respuestas == {"S", "N", "EOFError"}

\* main(), the answer to "Deseas sobrescribirlo?": with S the script stands
\* before the download, the file still on disk; otherwise the month is left
\* as it is.
ResponderPregunta ==
    /\ script = "descargar"
    /\ pc = "pregunta"
    /\ \E respuesta \in Respuestas :
        IF respuesta = "S"
        THEN /\ pc' = "descarga"
             /\ UNCHANGED <<pendientes, retorno, descarga>>
        ELSE /\ retorno' =
                  IF respuesta = "EOFError" THEN "excepcion" ELSE "omitido"
             /\ pendientes' = Tail(pendientes)
             /\ descarga' = SinDescarga
             /\ pc' = "bucle"
    /\ UNCHANGED <<exit_code, disk, tarea>>
    /\ UNCHANGED ajenas_a_descarga

\* descargar_imagen_gee from its first line to open(ruta_completa, 'wb'):
\* a request raises and the function returns None; or the size limit sends
\* it to descargar_con_export; or the response is there and the file is
\* opened for writing, which creates it or empties it.
DescargarImagenGEE ==
    /\ script \in Descargadores
    /\ pc \in {"eliminado", "descarga"}
    /\ \E desenlace \in Desenlaces :
        IF desenlace = "abierto"
        THEN /\ disk' = [disk EXCEPT ![Head(pendientes)] = Truncado]
             /\ pc' = "escribiendo"
             /\ UNCHANGED <<pendientes, retorno, descarga>>
        ELSE IF desenlace = "export"
        THEN /\ pc' = "export"
             /\ UNCHANGED <<disk, pendientes, retorno, descarga>>
        ELSE /\ Retornar("None")
             /\ UNCHANGED disk
    /\ UNCHANGED <<exit_code, tarea>>
    /\ UNCHANGED ajenas_a_descarga

\* The writing of the file, one wait for the network at a time: a chunk
\* arrives and is written; or the connection raises, the file is closed cut
\* short and the function returns None; or the body ends, the file is
\* closed whole and the function returns its path.
RecibirTrozo ==
    /\ script \in Descargadores
    /\ pc = "escribiendo"
    /\ \E llegada \in Llegadas :
        IF llegada = "trozo"
        THEN /\ descarga' =
                  [descarga EXCEPT !.trozos = ContarTrozo(descarga.trozos)]
             /\ UNCHANGED <<pc, disk, pendientes, retorno>>
        ELSE IF llegada = "corte"
        THEN /\ Retornar("None")
             /\ UNCHANGED disk
        ELSE /\ disk' = [disk EXCEPT ![Head(pendientes)] =
                                         Completo(Head(pendientes))]
             /\ Retornar("ruta")
    /\ UNCHANGED <<exit_code, tarea>>
    /\ UNCHANGED ajenas_a_descarga

-----------------------------------------------------------------------------
(* SpecRedescarga: the two download scripts on every set of files of the     *)
(* first MaxPresentes months present before the run, the other months with  *)
(* no file.                                                                  *)

MaxPresentes == 3

InitRedescarga ==
    \E presentes \in SUBSET (1..MaxPresentes) :
        \E s \in Descargadores :
            ArranqueOtro(s, <<>>,
                         [m \in Meses |->
                             IF m \in presentes THEN Parcial(m) ELSE Ausente],
                         IF s = "redescargar" THEN RASTERS_PROBLEMATICOS
                         ELSE MesesADescargar,
                         SinTeselado)

NextRedescarga ==
    \/ InicializarGEE \/ PrepararRedescarga \/ DescargarMes
    \/ ResponderPregunta \/ DescargarImagenGEE \/ RecibirTrozo
    \/ IniciarExport \/ Sondear \/ Servidor

SpecRedescarga == InitRedescarga /\ [][NextRedescarga]_vars

\* A file with the name of month m existed when the attempt on it began:
\* it is on disk at the head of the loop body, or the body found it there.
ExistiaAntes(m) ==
    IF pc = "bucle" THEN disk[m].existe ELSE descarga.existia

\* The step that ends the re-download attempt of the file of month m.
Intento(m) ==
    /\ script = "redescargar"
    /\ pendientes # <<>>
    /\ Head(pendientes) = m
    /\ pendientes' = Tail(pendientes)

\* C27: for every problematic raster, if a file with its name existed before
\* the re-download attempt, a file with that name exists after the attempt,
\* whether the download succeeded or failed.
C27_ExistenteSeConserva ==
    [][\A m \in Meses :
         (Intento(m) /\ ExistiaAntes(m)) => disk'[m].existe]_vars

\* main() keeps a file that is on disk when its download is attempted: the
\* download either leaves the file alone or opens it to write it anew.
C27_DescargaNoElimina ==
    [][\A m \in Meses :
         (script = "descargar" /\ disk[m].existe) => disk'[m].existe]_vars

\* The re-download loop stands between the removal of the old file and the
\* download.
C27_EliminadoSinDescargar ==
    /\ script = "redescargar"
    /\ pc = "eliminado"
    /\ descarga.existia
    /\ ~disk[Head(pendientes)].existe

\* The re-download of the first file is under way: the old file is gone,
\* the new one is open and cut, two chunks have been written and the
\* function has not returned.
C27_DescargaEnCurso ==
    /\ script = "redescargar"
    /\ pc = "escribiendo"
    /\ pendientes = RASTERS_PROBLEMATICOS
    /\ descarga.existia
    /\ descarga.trozos = MaxTrozos
    /\ disk[Head(pendientes)] = Truncado

\* main() waits for the answer of the user, the file on disk untouched.
C27_EsperaRespuesta ==
    /\ script = "descargar"
    /\ pc = "pregunta"
    /\ disk[Head(pendientes)] = Parcial(Head(pendientes))

\* The re-download of the first file went to descargar_con_export, which
\* slept three times and returned True for a COMPLETED task: the old file
\* is gone and no file is in its place.
C27_ExportadoSinArchivo ==
    /\ script = "redescargar"
    /\ pendientes = Tail(RASTERS_PROBLEMATICOS)
    /\ pc = "bucle"
    /\ retorno = "True"
    /\ tarea.servidor = "COMPLETED"
    /\ tarea.esperas = MaxEsperas
    /\ ~disk[Head(RASTERS_PROBLEMATICOS)].existe

=============================================================================
